---- MODULE Spec2Model ----
(***************************************************************************)
(* PokeDB: the record library (record.go) and the server's request         *)
(* handlers (server.go).                                                    *)
(*                                                                          *)
(* A session is one handle_client goroutine.  It serves one request at a   *)
(* time; pc[s] is the statement the session is at, named after the call    *)
(* it is inside (RL_ = RLockRecord, RU_ = RUnlockRecord, WL_ = WLockRecord, *)
(* WU_ = WUnlockRecord, RA_ = LockReadAll/UnlockReadAll, PK_ = poke_lock,  *)
(* PO_ = process_req_post_trainer, GP_ = process_req_get_poke).            *)
(*                                                                          *)
(* Granularity.  Every statement sequence that runs under one sync.Mutex    *)
(* without blocking inside it (MapLock in GetRecordLock, rec_lock.Lock in   *)
(* the four record-lock methods) is one atomic action: no other goroutine   *)
(* can observe its middle.  Cond.Wait releases rec_lock.Lock and parks the  *)
(* goroutine, so it ends an action; Cond.Broadcast makes every parked       *)
(* goroutine runnable again, and each then re-takes rec_lock.Lock and       *)
(* re-evaluates its loop condition in an action of its own.  Seek, Read     *)
(* and Write on the shared *os.File handles are separate actions.           *)
(***************************************************************************)
EXTENDS Integers, Sequences, FiniteSets, TLC

\* ------------------------------------------------------------- bounds
NumSessions == 3        \* concurrent handle_client goroutines
MaxId == 2              \* trainer ids the requests name are 1..MaxId
NumFileSessions == 2    \* the sessions that serve requests in the handlers' specification
MaxRecords == 2         \* no post is started once the trainer file holds this many records
NumSpecies == 2         \* records in the species file
MaxFairId == 1          \* trainer ids of the requests in the fair specification
MaxPostRecords == 3     \* the file size bound of the specification of posts and gets

Sessions == 1..NumSessions
Ids == 1..MaxId
None == 0

VARIABLES
    pc,               \* session -> the statement it is at
    req,              \* session -> the request it is serving
    GlobalLock,       \* gm.GlobalLock  (sync.RWMutex)
    poke_lock,        \* poke_lock      (sync.RWMutex)
    TrainerRecLocks,  \* gm.TrainerRecLocks: id -> RecordLock, or NoEntry
    trainer_file,     \* the trainer file: its fields, record after record
    trainer_off,      \* the file offset of the one trainer_file handle, in fields
    poke_off,         \* the file offset of the one poke_file handle, in fields
    loc,              \* session -> the local variables of the store function it is in
    wrArrival,        \* history: per id, the writers in WLockRecord in the order they pushed their marker
    rdBehind,         \* history: per reader, the writers it found queued or active at its first evaluation
    alloc,            \* PostTrainer's allocation taken alone: the size Stat reports, the error and id returned
    srv,              \* main: the coordinator's and the accept loop's variables, the channels, each handler's position
    sock              \* one direction of a connection: ReallyWrite's and ReallyRead's variables, the bytes in between

lockVars == <<GlobalLock, poke_lock, TrainerRecLocks>>
histVars == <<wrArrival, rdBehind, alloc, srv, sock>>
fileVars == <<trainer_file, trainer_off, poke_off>>
vars == <<pc, req, GlobalLock, poke_lock, TrainerRecLocks, trainer_file, trainer_off, poke_off, loc,
          wrArrival, rdBehind, alloc, srv, sock>>

\* ------------------------------------------------------------ requests
Kinds == {"get", "put", "del", "post", "poke", "all"}
NoReq == [kind |-> "none", id |-> 0, name |-> "", pokemon |-> <<>>]

\* The species lists and the trainer names the requests carry.  With
\* NumSpecies records in the species file, the first list is valid and the
\* second names one valid and then one missing species.
PokeLists == {<<NumSpecies>>, <<1, NumSpecies + 1>>}
Names == {"Ash"}

\* The requests of the lock manager's specification: the locks never read
\* the name or the species.
LockRequests ==
    {[kind |-> k, id |-> i, name |-> "", pokemon |-> <<>>] : k \in {"get", "put", "del"}, i \in Ids}
    \cup {[kind |-> k, id |-> 0, name |-> "", pokemon |-> <<>>] : k \in {"post", "poke", "all"}}

\* The requests of the trainer handlers' specification.
Requests ==
    {[kind |-> k, id |-> i, name |-> "", pokemon |-> <<>>] : k \in {"get", "del"}, i \in Ids}
    \cup {[kind |-> "put", id |-> i, name |-> "", pokemon |-> l] : i \in Ids, l \in PokeLists}
    \cup {[kind |-> "post", id |-> 0, name |-> n, pokemon |-> l] : n \in Names, l \in PokeLists}
    \cup {[kind |-> "all", id |-> 0, name |-> "", pokemon |-> <<>>]}

\* The first statement of each handler after the request matched its regexp.
FirstPc(kind) ==
    CASE kind = "get"  -> "RL_gate"
      [] kind = "put"  -> "WL_gate"
      [] kind = "del"  -> "WL_gate"
      [] kind = "post" -> "PO_gate"
      [] kind = "poke" -> "GP_RLock"
      [] kind = "all"  -> "RA_lock"

\* The record-store call each handler makes while it holds its locks, and
\* the statement that follows the call.
BodyEntry(kind) ==
    CASE kind = "get"  -> "GT_Seek"
      [] kind = "put"  -> "GT_Seek"
      [] kind = "del"  -> "GT_Seek"
      [] kind = "post" -> "PS_Stat"
      [] kind = "poke" -> "GP_Seek"
      [] kind = "all"  -> "RA_Stat"

BodyExit(kind) ==
    CASE kind = "get"  -> "RU_rec"
      [] kind = "put"  -> "PK_Unlock"
      [] kind = "del"  -> "WU_rec"
      [] kind = "post" -> "PK_Unlock"
      [] kind = "poke" -> "GP_RUnlock"
      [] kind = "all"  -> "RA_unlock"

\* ------------------------------------------------------------ records
\* Sizes and offsets are counted in struct fields: a TrainerRec is its ID,
\* its Name and six PokeDisplay values, a PokeRec its 22 fields.  binary.Write
\* lays the fields out in declaration order, binary.Read takes them back.
TrainerFields == <<"ID", "Name", "Poke1", "Poke2", "Poke3", "Poke4", "Poke5", "Poke6">>
TrainerSize == Len(TrainerFields)

PokeFields ==
    <<"ID", "Name", "Type1", "Type2", "HP", "Attack", "Defense", "SpAtk", "SpDef", "Speed",
      "Generation", "IsLegendary", "Color", "HasGender", "PrMale", "EggGroup1", "EggGroup2",
      "HasMegaEvo", "HeightM", "WeightKg", "CatchRate", "BodyStyle">>
PokeSize == Len(PokeFields)

NumPokeSlots == 6

\* id - 1 on a uint16.
Uint16Pred(id) == (id + 65535) % 65536

BlankPokeDisplay == [ID |-> 0, Name |-> ""]

\* var blank TrainerRec
BlankTrainer ==
    [ID |-> 0, Name |-> "", Poke |-> [i \in 1..NumPokeSlots |-> BlankPokeDisplay]]

\* binary.Write(trainer_file, binary.LittleEndian, &trainer)
EncodeTrainer(rec) == <<rec.ID, rec.Name>> \o rec.Poke

\* binary.Read(trainer_file, binary.LittleEndian, &trainer)
DecodeTrainer(cells) ==
    [ID |-> cells[1], Name |-> cells[2], Poke |-> SubSeq(cells, 3, TrainerSize)]

\* The species file: NumSpecies records, ids 1..NumSpecies, never written.
PokeNameOf(id) == IF id = 1 THEN "Bulbasaur" ELSE IF id = 2 THEN "Ivysaur" ELSE "Venusaur"

PokeFile ==
    [i \in 1..(NumSpecies * PokeSize) |->
        LET id == ((i - 1) \div PokeSize) + 1
            f  == ((i - 1) % PokeSize) + 1
        IN  IF f = 1 THEN id ELSE IF f = 2 THEN PokeNameOf(id) ELSE 0]

Min(a, b) == IF a < b THEN a ELSE b
Max(a, b) == IF a < b THEN b ELSE a

\* What a read of n fields at offset off returns: the fields there are, up
\* to the end of the file.
FileRead(file, off, n) ==
    IF off >= Len(file) THEN <<>> ELSE SubSeq(file, off + 1, Min(off + n, Len(file)))

\* A write of cells at offset off; a write past the end leaves a hole of
\* zero bytes.
FileWrite(file, off, cells) ==
    [i \in 1..Max(Len(file), off + Len(cells)) |->
        IF i > off /\ i <= off + Len(cells) THEN cells[i - off]
        ELSE IF i <= Len(file) THEN file[i]
        ELSE EncodeTrainer(BlankTrainer)[((i - 1) % TrainerSize) + 1]]

\* No allocation made.
NoAlloc == [file_size |-> 0, err |-> "", id |-> 0]

\* The local variables of the store functions and of the handlers' loops.
NoLoc == [idx |-> 0, count |-> 0, err |-> "", rec |-> BlankTrainer, sent |-> <<>>]

\* A trainer record as PostTrainer builds it from valid species ids.
TrainerOf(id, name, pokemon) ==
    [ID |-> id, Name |-> name,
     Poke |-> [i \in 1..NumPokeSlots |->
                  IF i <= Len(pokemon)
                    THEN [ID |-> pokemon[i], Name |-> PokeNameOf(pokemon[i])]
                    ELSE BlankPokeDisplay]]

\* The trainer files the server may be started on: none yet, or one left
\* by an earlier run.
InitTrainerFiles == {<<>>, EncodeTrainer(TrainerOf(1, "Red", <<1>>))}

\* Trainer files cut short in the middle of a record.
CutShortFiles ==
    LET red == EncodeTrainer(TrainerOf(1, "Red", <<1>>))
    IN  {SubSeq(red, 1, 3), red \o SubSeq(red, 1, 3)}

\* ------------------------------------------------------- sync.RWMutex
\* w: the goroutine that holds rw.w and has announced itself to the readers
\* (from Lock's first two statements to Unlock), or None.  readers: the
\* goroutines holding the lock shared.  A goroutine that calls RLock while
\* w is taken parks on readerSem; Unlock releases every goroutine parked
\* there before it gives up rw.w.
NewRWMutex == [w |-> None, readers |-> {}]

\* A variant of RLock that never parks.
AlwaysReadable(rw) == TRUE

RWMutexReadable(rw) == rw.w = None

RWMutexAddReader(rw, s) == [rw EXCEPT !.readers = @ \cup {s}]

\* A variant of RUnlock that leaves the reader in.
RWMutexRUnlockKeeps(rw, s) == rw

RWMutexRUnlock(rw, s) == [rw EXCEPT !.readers = @ \ {s}]

RWMutexAnnounce(rw, s) == [rw EXCEPT !.w = s]

RWMutexDrained(rw) == rw.readers = {}

RWMutexUnlock(rw, parked) == [w |-> None, readers |-> rw.readers \cup parked]

\* ---------------------------------------------------------- RecordLock
NoEntry == [present |-> FALSE]

\* A variant whose fresh entry has a writer in it.
RecordLockTaken == [present |-> TRUE, NumReading |-> 0, NumWriting |-> 1, WrQueue |-> <<>>]

\* NewRecordLock(): the zero state.
NewRecordLock == [present |-> TRUE, NumReading |-> 0, NumWriting |-> 0, WrQueue |-> <<>>]

GetRecordLock(locks, id) ==
    IF locks[id].present THEN locks ELSE [locks EXCEPT ![id] = NewRecordLock]

\* Variants of the loop condition: without the queue test, and with a test
\* of NumReading added.
ReaderWaitsActiveOnly(rl) == rl.NumWriting > 0

ReaderWaitsForReaders(rl) == rl.NumWriting > 0 \/ Len(rl.WrQueue) > 0 \/ rl.NumReading > 0

\* RLockRecord's loop condition (the reader waits while it holds).
ReaderMustWait(rl) == rl.NumWriting > 0 \/ Len(rl.WrQueue) > 0

\* A variant that pushes the marker to the front.
WrQueuePushFront(q, waiter) == <<waiter>> \o q

\* WLockRecord: the marker goes to the back of the queue.
WrQueuePushBack(q, waiter) == Append(q, waiter)

\* A variant of the break condition without the NumReading test.
WriterIgnoresReaders(rl, waiter) ==
    /\ Len(rl.WrQueue) > 0
    /\ Head(rl.WrQueue) = waiter
    /\ rl.NumWriting = 0

\* WLockRecord's break condition.
WriterMayProceed(rl, waiter) ==
    /\ Len(rl.WrQueue) > 0
    /\ Head(rl.WrQueue) = waiter
    /\ rl.NumReading = 0
    /\ rl.NumWriting = 0

\* A variant that leaves the marker in the queue.
WrQueueKeeps(q, waiter) == q

\* WrQueue.Remove(waiter)
WrQueueRemove(q, waiter) == SelectSeq(q, LAMBDA m : m # waiter)

\* RUnlockRecord's guarded decrement.
ReaderLeaves(rl) ==
    [rl EXCEPT !.NumReading = IF @ > 0 THEN @ - 1 ELSE @]

\* A variant that wakes nobody.
NoBroadcast(p, id) == p

\* Cond.Broadcast on the RecordLock of id: every goroutine parked in
\* Cond.Wait of that RecordLock becomes runnable.
Broadcast(p, id) ==
    [t \in Sessions |->
        IF req[t].id = id /\ p[t] = "RL_wait" THEN "RL_woken"
        ELSE IF req[t].id = id /\ p[t] = "WL_wait" THEN "WL_woken"
        ELSE p[t]]

\* A variant of Unlock that releases no parked reader.
NoneParked == {}

\* The goroutines parked in GlobalLock.RLock, and where each continues.
GateParked == {t \in Sessions : pc[t] \in {"RL_blocked", "WL_blocked", "PO_blocked"}}

AfterGate(label) ==
    CASE label = "RL_gate" -> "RL_enter"
      [] label = "RL_blocked" -> "RL_enter"
      [] label = "WL_gate" -> "WL_enter"
      [] label = "WL_blocked" -> "WL_enter"
      [] label = "PO_gate" -> "PK_Lock"
      [] label = "PO_blocked" -> "PK_Lock"

ParkedAt(label) ==
    CASE label = "RL_gate" -> "RL_blocked"
      [] label = "WL_gate" -> "WL_blocked"
      [] label = "PO_gate" -> "PO_blocked"

\* ------------------------------------------------------------ regions
\* Where a session is, read off its pc: the statements of a handler at
\* which the call named has returned and its release has not yet run.
HoldsRead(s) ==
    /\ req[s].kind = "get"
    /\ pc[s] \notin {"idle", "RL_gate", "RL_blocked", "RL_enter", "RL_wait", "RL_woken", "RU_gate"}

HoldsWrite(s) ==
    /\ req[s].kind \in {"put", "del"}
    /\ pc[s] \notin {"idle", "WL_gate", "WL_blocked", "WL_enter", "WL_wait", "WL_woken", "WU_gate"}

\* In WLockRecord with the marker in WrQueue.
WriteQueued(s) ==
    /\ req[s].kind \in {"put", "del"}
    /\ pc[s] \in {"WL_wait", "WL_woken"}

\* The writers of id that are active or have their marker in the queue.
WritersOf(id) ==
    {t \in Sessions : req[t].id = id /\ (HoldsWrite(t) \/ WriteQueued(t))}

ReadersOf(id) ==
    {t \in Sessions : req[t].id = id /\ HoldsRead(t)}

\* Between GlobalLock.RLock() and GlobalLock.RUnlock() of a per-id
\* operation (get, put, delete) or of a post.
InGateShared(s) ==
    /\ req[s].kind \in {"get", "put", "del", "post"}
    /\ pc[s] \notin {"idle", "RL_gate", "RL_blocked", "WL_gate", "WL_blocked", "PO_gate", "PO_blocked"}

\* Between LockReadAll and UnlockReadAll.
HoldsReadAll(s) ==
    /\ req[s].kind = "all"
    /\ pc[s] \notin {"idle", "RA_lock", "RA_blocked", "RA_drain"}

\* Inside LockReadAll and blocked there: on rw.w, which another read-all
\* holds, or announced and waiting for the active readers to leave.
ReadAllWaiting(s) ==
    /\ req[s].kind = "all"
    /\ pc[s] \in {"RA_blocked", "RA_drain"}

\* ------------------------------------------------------------ main
\* No connection.
NoSock == 0

\* main has made its channels and started its two goroutines: no
\* connection is accepted, the coordinator is at its select with an empty
\* clients map, signal_chan (buffered, one place) is empty, accept_done is
\* open.  handler gives each connection's handle_client position, bye the
\* BYE frames written to it (a connection is "accepted" when Accept has
\* returned it, "received" when the coordinator has taken it from
\* new_client, "running" when its handler is started); atSignal records
\* the clients map as the coordinator found it when it took the signal;
\* io tells whether reads or writes on the connection have begun to fail.
ServerUp ==
    [handler       |-> [c \in Sessions |-> "none"],
     clients       |-> {},
     shutting_down |-> FALSE,
     coord         |-> "select",
     range_rest    |-> {},
     range_client  |-> NoSock,
     bye           |-> [c \in Sessions |-> 0],
     io            |-> [c \in Sessions |-> "ok"],
     signal_chan   |-> <<>>,
     accept        |-> "Accept",
     client_sock   |-> NoSock,
     accept_done   |-> FALSE,
     main          |-> "accept_done",
     atSignal      |-> {}]

\* ------------------------------------------------------------ framing
\* binary.BigEndian.PutUint32: the four bytes of n, the most significant
\* first.
BigEndianPutUint32(n) ==
    <<(n \div 16777216) % 256, (n \div 65536) % 256, (n \div 256) % 256, n % 256>>

\* Four bytes read the least significant first.
LittleEndianUint32(b) == ((b[4] * 256 + b[3]) * 256 + b[2]) * 256 + b[1]

\* binary.BigEndian.Uint32: the number four bytes stand for.
BigEndianUint32(b) == ((b[1] * 256 + b[2]) * 256 + b[3]) * 256 + b[4]

\* ReallyWrite's packet for a payload.
Packet(data) == BigEndianPutUint32(Len(data)) \o data

\* A connection on which msgs are to be written, one ReallyWrite call
\* each: nothing is written yet, the reader is in ReallyRead with no byte
\* of the length read.  packet and total are ReallyWrite's, len_buf, msg
\* and err ReallyRead's, stream holds the bytes written and not yet read,
\* got the strings ReallyRead has returned.
Connected(msgs) ==
    [msgs    |-> msgs,
     out     |-> msgs,
     packet  |-> <<>>,
     total   |-> 0,
     stream  |-> <<>>,
     closed  |-> FALSE,
     len_buf |-> <<>>,
     msg     |-> <<>>,
     reading |-> "len_buf",
     err     |-> "",
     got     |-> <<>>]

\* ------------------------------------------------------------ Init
\* The server has started: no session serves a request, no lock is held,
\* both file offsets are 0.
Started ==
    /\ pc = [s \in Sessions |-> "idle"]
    /\ req = [s \in Sessions |-> NoReq]
    /\ GlobalLock = NewRWMutex
    /\ poke_lock = NewRWMutex
    /\ TrainerRecLocks = [i \in Ids |-> NoEntry]
    /\ trainer_off = 0
    /\ poke_off = 0
    /\ loc = [s \in Sessions |-> NoLoc]
    /\ wrArrival = [i \in Ids |-> <<>>]
    /\ rdBehind = [s \in Sessions |-> {}]
    /\ srv = ServerUp

Init ==
    /\ Started
    /\ sock = Connected(<<>>)
    /\ trainer_file \in InitTrainerFiles
    /\ alloc = NoAlloc

\* ------------------------------------------------------------ actions
\* handle_client: a request frame is read and matches a handler's regexp.
Dispatch(s, r) ==
    /\ pc[s] = "idle"
    /\ pc' = [pc EXCEPT ![s] = FirstPc(r.kind)]
    /\ req' = [req EXCEPT ![s] = r]
    /\ UNCHANGED <<lockVars, histVars, fileVars, loc>>

\* m.GlobalLock.RLock() in RLockRecord, WLockRecord and the post handler.
GateRLock(s) ==
    /\ pc[s] \in {"RL_gate", "WL_gate", "PO_gate"}
    /\ IF RWMutexReadable(GlobalLock)
         THEN /\ GlobalLock' = RWMutexAddReader(GlobalLock, s)
              /\ pc' = [pc EXCEPT ![s] = AfterGate(pc[s])]
         ELSE /\ pc' = [pc EXCEPT ![s] = ParkedAt(pc[s])]
              /\ UNCHANGED GlobalLock
    /\ UNCHANGED <<req, poke_lock, TrainerRecLocks, histVars, fileVars, loc>>

\* RLockRecord after the gate: GetRecordLock, rec_lock.Lock.Lock(), the
\* wait loop, NumReading++, Unlock.
RLockRecord(s) ==
    /\ pc[s] \in {"RL_enter", "RL_woken"}
    /\ LET id == req[s].id
           locks == GetRecordLock(TrainerRecLocks, id)
           rl == locks[id]
       IN  /\ IF ReaderMustWait(rl)
                THEN /\ TrainerRecLocks' = locks
                     /\ pc' = [pc EXCEPT ![s] = "RL_wait"]
                ELSE /\ TrainerRecLocks' = [locks EXCEPT ![id].NumReading = @ + 1]
                     /\ pc' = [pc EXCEPT ![s] = BodyEntry(req[s].kind)]
           /\ rdBehind' = IF pc[s] = "RL_enter"
                            THEN [rdBehind EXCEPT ![s] = WritersOf(id)]
                            ELSE rdBehind
    /\ UNCHANGED <<req, GlobalLock, poke_lock, wrArrival, alloc, srv, sock, fileVars, loc>>

\* RUnlockRecord up to rec_lock.Lock.Unlock().
RUnlockRecord(s) ==
    /\ pc[s] = "RU_rec"
    /\ LET id == req[s].id
           locks == GetRecordLock(TrainerRecLocks, id)
           rl == ReaderLeaves(locks[id])
       IN  /\ TrainerRecLocks' = [locks EXCEPT ![id] = rl]
           /\ pc' = IF rl.NumReading = 0
                      THEN Broadcast([pc EXCEPT ![s] = "RU_gate"], id)
                      ELSE [pc EXCEPT ![s] = "RU_gate"]
    /\ UNCHANGED <<req, GlobalLock, poke_lock, histVars, fileVars, loc>>

\* m.GlobalLock.RUnlock(), the last statement of RUnlockRecord,
\* WUnlockRecord and of the post handler's locked section.
GateRUnlock(s) ==
    /\ pc[s] \in {"RU_gate", "WU_gate", "PO_gateunlock"}
    /\ GlobalLock' = RWMutexRUnlock(GlobalLock, s)
    /\ pc' = [pc EXCEPT ![s] = "idle"]
    /\ req' = [req EXCEPT ![s] = NoReq]
    /\ loc' = [loc EXCEPT ![s] = NoLoc]
    /\ UNCHANGED <<poke_lock, TrainerRecLocks, histVars, fileVars>>

\* WLockRecord after the gate: GetRecordLock, Lock, PushBack (first pass
\* only), the wait loop, Remove, NumWriting = 1, Unlock.
WLockRecord(s) ==
    /\ pc[s] \in {"WL_enter", "WL_woken"}
    /\ LET id == req[s].id
           locks == GetRecordLock(TrainerRecLocks, id)
           rl == IF pc[s] = "WL_enter"
                   THEN [locks[id] EXCEPT !.WrQueue = WrQueuePushBack(@, s)]
                   ELSE locks[id]
           arrived == IF pc[s] = "WL_enter" THEN Append(wrArrival[id], s) ELSE wrArrival[id]
       IN  IF WriterMayProceed(rl, s)
             THEN /\ TrainerRecLocks' =
                        [locks EXCEPT ![id] = [rl EXCEPT !.WrQueue = WrQueueRemove(@, s),
                                                         !.NumWriting = 1]]
                  /\ pc' = [pc EXCEPT ![s] =
                                IF req[s].kind = "put" THEN "PK_Lock" ELSE BodyEntry(req[s].kind)]
                  /\ wrArrival' = [wrArrival EXCEPT ![id] = SelectSeq(arrived, LAMBDA m : m # s)]
             ELSE /\ TrainerRecLocks' = [locks EXCEPT ![id] = rl]
                  /\ pc' = [pc EXCEPT ![s] = "WL_wait"]
                  /\ wrArrival' = [wrArrival EXCEPT ![id] = arrived]
    /\ UNCHANGED <<req, GlobalLock, poke_lock, rdBehind, alloc, srv, sock, fileVars, loc>>

\* WUnlockRecord up to rec_lock.Lock.Unlock().
WUnlockRecord(s) ==
    /\ pc[s] = "WU_rec"
    /\ LET id == req[s].id
           locks == GetRecordLock(TrainerRecLocks, id)
       IN  /\ TrainerRecLocks' = [locks EXCEPT ![id].NumWriting = 0]
           /\ pc' = Broadcast([pc EXCEPT ![s] = "WU_gate"], id)
    /\ rdBehind' = [t \in Sessions |-> rdBehind[t] \ {s}]
    /\ UNCHANGED <<req, GlobalLock, poke_lock, wrArrival, alloc, srv, sock, fileVars, loc>>

\* LockReadAll: GlobalLock.Lock() takes rw.w and announces the writer; it
\* returns at once when no reader is active.  When another read-all has
\* rw.w the caller blocks on it, and tries again once it is free.
LockReadAll(s) ==
    /\ pc[s] \in {"RA_lock", "RA_blocked"}
    /\ IF GlobalLock.w = None
         THEN /\ GlobalLock' = RWMutexAnnounce(GlobalLock, s)
              /\ pc' = [pc EXCEPT ![s] = IF RWMutexDrained(GlobalLock)
                                           THEN BodyEntry(req[s].kind) ELSE "RA_drain"]
         ELSE /\ pc[s] = "RA_lock"
              /\ pc' = [pc EXCEPT ![s] = "RA_blocked"]
              /\ UNCHANGED GlobalLock
    /\ UNCHANGED <<req, poke_lock, TrainerRecLocks, histVars, fileVars, loc>>

\* LockReadAll: the announced writer is woken by the last active reader.
LockReadAllDrained(s) ==
    /\ pc[s] = "RA_drain"
    /\ RWMutexDrained(GlobalLock)
    /\ pc' = [pc EXCEPT ![s] = BodyEntry(req[s].kind)]
    /\ UNCHANGED <<req, lockVars, histVars, fileVars, loc>>

\* UnlockReadAll: GlobalLock.Unlock() hands the lock to every parked reader.
UnlockReadAll(s) ==
    /\ pc[s] = "RA_unlock"
    /\ GlobalLock' = RWMutexUnlock(GlobalLock, GateParked)
    /\ pc' = [t \in Sessions |->
                IF t = s THEN "idle"
                ELSE IF t \in GateParked THEN AfterGate(pc[t]) ELSE pc[t]]
    /\ req' = [req EXCEPT ![s] = NoReq]
    /\ loc' = [loc EXCEPT ![s] = NoLoc]
    /\ UNCHANGED <<poke_lock, TrainerRecLocks, histVars, fileVars>>

\* poke_lock.Lock() in the post and put handlers.  A caller that finds
\* rw.w taken stays at the call until it is free.
PokeLock(s) ==
    /\ pc[s] = "PK_Lock"
    /\ poke_lock.w = None
    /\ poke_lock' = RWMutexAnnounce(poke_lock, s)
    /\ pc' = [pc EXCEPT ![s] = IF RWMutexDrained(poke_lock)
                                 THEN BodyEntry(req[s].kind) ELSE "PK_drain"]
    /\ UNCHANGED <<req, GlobalLock, TrainerRecLocks, histVars, fileVars, loc>>

PokeLockDrained(s) ==
    /\ pc[s] = "PK_drain"
    /\ RWMutexDrained(poke_lock)
    /\ pc' = [pc EXCEPT ![s] = BodyEntry(req[s].kind)]
    /\ UNCHANGED <<req, lockVars, histVars, fileVars, loc>>

\* poke_lock.Unlock() in the post and put handlers.
PokeUnlock(s) ==
    /\ pc[s] = "PK_Unlock"
    /\ LET parked == {t \in Sessions : pc[t] = "GP_blocked"}
       IN  /\ poke_lock' = RWMutexUnlock(poke_lock, parked)
           /\ pc' = [t \in Sessions |->
                        IF t = s THEN (IF req[s].kind = "put" THEN "WU_rec" ELSE "PO_gateunlock")
                        ELSE IF t \in parked THEN BodyEntry(req[t].kind) ELSE pc[t]]
    /\ UNCHANGED <<req, GlobalLock, TrainerRecLocks, histVars, fileVars, loc>>

\* poke_lock.RLock() in process_req_get_poke.
PokeRLock(s) ==
    /\ pc[s] = "GP_RLock"
    /\ IF RWMutexReadable(poke_lock)
         THEN /\ poke_lock' = RWMutexAddReader(poke_lock, s)
              /\ pc' = [pc EXCEPT ![s] = BodyEntry(req[s].kind)]
         ELSE /\ pc' = [pc EXCEPT ![s] = "GP_blocked"]
              /\ UNCHANGED poke_lock
    /\ UNCHANGED <<req, GlobalLock, TrainerRecLocks, histVars, fileVars, loc>>

\* poke_lock.RUnlock() in process_req_get_poke.
PokeRUnlock(s) ==
    /\ pc[s] = "GP_RUnlock"
    /\ poke_lock' = RWMutexRUnlock(poke_lock, s)
    /\ pc' = [pc EXCEPT ![s] = "idle"]
    /\ req' = [req EXCEPT ![s] = NoReq]
    /\ loc' = [loc EXCEPT ![s] = NoLoc]
    /\ UNCHANGED <<GlobalLock, TrainerRecLocks, histVars, fileVars>>

\* One step of session s inside the lock manager.
LockStep(s) ==
    \/ GateRLock(s)
    \/ RLockRecord(s)
    \/ RUnlockRecord(s)
    \/ GateRUnlock(s)
    \/ WLockRecord(s)
    \/ WUnlockRecord(s)
    \/ LockReadAll(s)
    \/ LockReadAllDrained(s)
    \/ UnlockReadAll(s)
    \/ PokeLock(s)
    \/ PokeLockDrained(s)
    \/ PokeUnlock(s)
    \/ PokeRLock(s)
    \/ PokeRUnlock(s)

\* ------------------------------------------------------- record store
\* The trainer id a GetTrainer call is given: the request's, or the index
\* of the read-all loop.
CallId(s) == IF req[s].kind = "all" THEN loc[s].idx % 65536 ELSE req[s].id

\* A store function returns: its error (or "") is kept and the handler
\* continues after the call.
Return(s, err) ==
    /\ loc' = [loc EXCEPT ![s].err = err]
    /\ pc' = [pc EXCEPT ![s] = BodyExit(req[s].kind)]

\* GetTrainer: trainer_file.Seek(offset, 0).
GetTrainerSeek(s) ==
    /\ pc[s] = "GT_Seek"
    /\ trainer_off' = Uint16Pred(CallId(s)) * TrainerSize
    /\ pc' = [pc EXCEPT ![s] = "GT_Read"]
    /\ UNCHANGED <<req, lockVars, histVars, trainer_file, poke_off, loc>>

\* The error of a binary.Read that got `cells` of the n fields it wanted.
ReadError(cells, n) ==
    IF Len(cells) = n THEN "" ELSE IF Len(cells) = 0 THEN "EOF" ELSE "unexpected EOF"

\* A variant without the stored-id test.
GetTrainerResultAnyId(cells) == ReadError(cells, TrainerSize)

\* GetTrainer's result on the fields read.
GetTrainerResult(cells) ==
    IF ReadError(cells, TrainerSize) # "" THEN ReadError(cells, TrainerSize)
    ELSE IF DecodeTrainer(cells).ID = 0 THEN "trainer ID not found"
    ELSE ""

\* GetTrainer: binary.Read and the stored-id test, and what its caller
\* does with the result up to the caller's next file access.
GetTrainerRead(s) ==
    /\ pc[s] = "GT_Read"
    /\ LET cells == FileRead(trainer_file, trainer_off, TrainerSize)
           err == GetTrainerResult(cells)
           rec == IF err = "" THEN DecodeTrainer(cells) ELSE BlankTrainer
           kind == req[s].kind
       IN  /\ trainer_off' = trainer_off + Len(cells)
           /\ CASE kind = "get" ->
                     /\ loc' = [loc EXCEPT ![s].err = err, ![s].rec = rec]
                     /\ pc' = [pc EXCEPT ![s] = BodyExit(kind)]
                [] kind = "put" ->
                     IF err # "" THEN Return(s, "trainer ID not found")
                     ELSE /\ loc' = [loc EXCEPT ![s].rec =
                                        [BlankTrainer EXCEPT !.ID = rec.ID, !.Name = rec.Name]]
                          /\ pc' = [pc EXCEPT ![s] = "PT_Stat"]
                [] kind = "del" ->
                     IF err # "" THEN Return(s, err)
                     ELSE /\ pc' = [pc EXCEPT ![s] = "DT_Stat"]
                          /\ UNCHANGED loc
                [] kind = "all" ->
                     IF err = "trainer ID not found"
                       THEN /\ loc' = [loc EXCEPT ![s].idx = @ + 1]
                            /\ pc' = [pc EXCEPT ![s] = "GT_Seek"]
                     ELSE IF err # ""
                       THEN /\ pc' = [pc EXCEPT ![s] = BodyExit(kind)]
                            /\ UNCHANGED loc
                     ELSE /\ loc' = [loc EXCEPT ![s].idx = @ + 1, ![s].count = @ + 1,
                                                 ![s].sent = Append(@, rec)]
                          /\ pc' = [pc EXCEPT ![s] = "GT_Seek"]
    /\ UNCHANGED <<req, lockVars, histVars, trainer_file, poke_off>>

\* A variant that looks up the first species id only.
PokeLoopFirstOnly(s, idx) ==
    IF idx < Len(req[s].pokemon) /\ idx < 1 THEN "PN_Seek"
    ELSE IF req[s].kind = "put" THEN "PT_Seek" ELSE "PS_Seek"

\* Where the species loop of PostTrainer and PutTrainer goes at index idx
\* (0-based): to the next GetPokeName, or past the loop to the Seek before
\* the write.
PokeLoopPc(s, idx) ==
    IF idx < Len(req[s].pokemon) /\ idx < NumPokeSlots THEN "PN_Seek"
    ELSE IF req[s].kind = "put" THEN "PT_Seek" ELSE "PS_Seek"

\* A size test that every size passes.
FileSizeAny(file_size) == TRUE

\* The file-size test of PostTrainer, PutTrainer and DeleteTrainer.
FileSizeOk(file_size) == file_size % TrainerSize = 0

\* The largest trainer id: a uint16.
MaxTrainerId == 65535

\* A variant that allows one id more.
NextIdOffByOne(next) == next > MaxTrainerId + 1

\* PostTrainer: if next > 0xFFFF.
NextIdOutOfRange(next) == next > MaxTrainerId

\* PostTrainer on a file of file_size fields: the size test, the next id
\* and its range test, trainer.ID = uint16(next).
NextTrainerId(file_size) ==
    LET next == (file_size \div TrainerSize) + 1
    IN  IF ~ FileSizeOk(file_size)
          THEN [err |-> "file size is not a multiple of record size", id |-> 0]
        ELSE IF NextIdOutOfRange(next)
          THEN [err |-> "next ID out of range", id |-> 0]
        ELSE [err |-> "", id |-> next % 65536]

\* PostTrainer: Stat, the size test, the next id, the new record's ID and Name.
PostTrainerStat(s) ==
    /\ pc[s] = "PS_Stat"
    /\ req[s].kind = "post"
    /\ LET next == NextTrainerId(Len(trainer_file))
       IN  IF next.err # ""
             THEN Return(s, next.err)
           ELSE /\ loc' = [loc EXCEPT ![s].rec = [BlankTrainer EXCEPT !.ID = next.id, !.Name = req[s].name],
                                       ![s].idx = 0]
                /\ pc' = [pc EXCEPT ![s] = PokeLoopPc(s, 0)]
    /\ UNCHANGED <<req, lockVars, histVars, fileVars>>

\* PutTrainer: Stat and the size test.
PutTrainerStat(s) ==
    /\ pc[s] = "PT_Stat"
    /\ IF ~ FileSizeOk(Len(trainer_file))
         THEN Return(s, "file size is not a multiple of record size")
         ELSE /\ loc' = [loc EXCEPT ![s].idx = 0]
              /\ pc' = [pc EXCEPT ![s] = PokeLoopPc(s, 0)]
    /\ UNCHANGED <<req, lockVars, histVars, fileVars>>

\* GetPokeName: poke_file.Seek(offset, 0), the offset of the Name field.
GetPokeNameSeek(s) ==
    /\ pc[s] = "PN_Seek"
    /\ poke_off' = Uint16Pred(req[s].pokemon[loc[s].idx + 1]) * PokeSize + 1
    /\ pc' = [pc EXCEPT ![s] = "PN_Read"]
    /\ UNCHANGED <<req, lockVars, histVars, trainer_file, trainer_off, loc>>

\* GetPokeName: binary.Read of the name, and the caller's slot assignment.
GetPokeNameRead(s) ==
    /\ pc[s] = "PN_Read"
    /\ LET cells == FileRead(PokeFile, poke_off, 1)
           idx == loc[s].idx
       IN  /\ poke_off' = poke_off + Len(cells)
           /\ IF ReadError(cells, 1) # ""
                THEN Return(s, "pokemon ID not found")
                ELSE /\ loc' = [loc EXCEPT ![s].rec.Poke[idx + 1] =
                                    [ID |-> req[s].pokemon[idx + 1], Name |-> cells[1]],
                                           ![s].idx = idx + 1]
                     /\ pc' = [pc EXCEPT ![s] = PokeLoopPc(s, idx + 1)]
    /\ UNCHANGED <<req, lockVars, histVars, trainer_file, trainer_off>>

\* PostTrainer: trainer_file.Seek(0, unix.SEEK_END).
PostTrainerSeek(s) ==
    /\ pc[s] = "PS_Seek"
    /\ trainer_off' = Len(trainer_file)
    /\ pc' = [pc EXCEPT ![s] = "PS_Write"]
    /\ UNCHANGED <<req, lockVars, histVars, trainer_file, poke_off, loc>>

\* A variant that computes the offset with the species record size.
RecordSeekPokeSize(s) ==
    /\ pc[s] \in {"PT_Seek", "DT_Seek"}
    /\ trainer_off' = Uint16Pred(req[s].id) * PokeSize
    /\ pc' = [pc EXCEPT ![s] = IF pc[s] = "PT_Seek" THEN "PT_Write" ELSE "DT_Write"]
    /\ UNCHANGED <<req, lockVars, histVars, trainer_file, poke_off, loc>>

\* PutTrainer and DeleteTrainer: trainer_file.Seek(offset, 0).
RecordSeek(s) ==
    /\ pc[s] \in {"PT_Seek", "DT_Seek"}
    /\ trainer_off' = Uint16Pred(req[s].id) * TrainerSize
    /\ pc' = [pc EXCEPT ![s] = IF pc[s] = "PT_Seek" THEN "PT_Write" ELSE "DT_Write"]
    /\ UNCHANGED <<req, lockVars, histVars, trainer_file, poke_off, loc>>

\* PostTrainer and PutTrainer: binary.Write of the record built, Sync.
TrainerWrite(s) ==
    /\ pc[s] \in {"PS_Write", "PT_Write"}
    /\ LET cells == EncodeTrainer(loc[s].rec)
       IN  /\ trainer_file' = FileWrite(trainer_file, trainer_off, cells)
           /\ trainer_off' = trainer_off + Len(cells)
    /\ Return(s, "")
    /\ UNCHANGED <<req, lockVars, histVars, poke_off>>

\* DeleteTrainer: Stat and the size test.
DeleteTrainerStat(s) ==
    /\ pc[s] = "DT_Stat"
    /\ IF ~ FileSizeOk(Len(trainer_file))
         THEN Return(s, "file size is not a multiple of record size")
         ELSE /\ pc' = [pc EXCEPT ![s] = "DT_Seek"]
              /\ UNCHANGED loc
    /\ UNCHANGED <<req, lockVars, histVars, fileVars>>

\* DeleteTrainer: binary.Write of the blank record.
DeleteTrainerWrite(s) ==
    /\ pc[s] = "DT_Write"
    /\ LET cells == EncodeTrainer(BlankTrainer)
       IN  /\ trainer_file' = FileWrite(trainer_file, trainer_off, cells)
           /\ trainer_off' = trainer_off + Len(cells)
    /\ Return(s, "")
    /\ UNCHANGED <<req, lockVars, histVars, poke_off>>

\* process_req_get_trainer_all: Stat and the tests before the loop.
ReadAllStat(s) ==
    /\ pc[s] = "RA_Stat"
    /\ LET file_size == Len(trainer_file)
       IN  IF file_size = 0 THEN Return(s, "OUT_OF_BOUNDS")
           ELSE IF ~ FileSizeOk(file_size) THEN Return(s, "FILE_ERROR")
           ELSE /\ loc' = [loc EXCEPT ![s].idx = 1, ![s].count = 0]
                /\ pc' = [pc EXCEPT ![s] = "GT_Seek"]
    /\ UNCHANGED <<req, lockVars, histVars, fileVars>>

\* GetPokemon: poke_file.Seek(offset, 0).
GetPokemonSeek(s) ==
    /\ pc[s] = "GP_Seek"
    /\ poke_off' = Uint16Pred(req[s].id) * PokeSize
    /\ pc' = [pc EXCEPT ![s] = "GP_Read"]
    /\ UNCHANGED <<req, lockVars, histVars, trainer_file, trainer_off, loc>>

\* GetPokemon: binary.Read of the record; the handler keeps the species id read.
GetPokemonRead(s) ==
    /\ pc[s] = "GP_Read"
    /\ LET cells == FileRead(PokeFile, poke_off, PokeSize)
       IN  /\ poke_off' = poke_off + Len(cells)
           /\ loc' = [loc EXCEPT ![s].err = ReadError(cells, PokeSize),
                                 ![s].count = IF Len(cells) = PokeSize THEN cells[1] ELSE 0]
           /\ pc' = [pc EXCEPT ![s] = BodyExit(req[s].kind)]
    /\ UNCHANGED <<req, lockVars, histVars, trainer_file, trainer_off>>

\* The model's size bound: no request is started once the trainer file
\* holds more than MaxRecords records, and no post that would take it there.
PostsInFlight == Cardinality({t \in Sessions : req[t].kind = "post"})

Admitted(r) ==
    Len(trainer_file) + TrainerSize * (IF r.kind = "post" THEN 1 + PostsInFlight ELSE 0)
        <= MaxRecords * TrainerSize

FileSessions == 1..NumFileSessions

\* The trainer handlers (get, put, delete, post, read-all) of
\* NumFileSessions sessions on one trainer file.
Next ==
    \/ \E s \in FileSessions, r \in Requests : Admitted(r) /\ Dispatch(s, r)
    \/ \E s \in FileSessions :
        \/ GateRLock(s)
        \/ RLockRecord(s)
        \/ RUnlockRecord(s)
        \/ GateRUnlock(s)
        \/ WLockRecord(s)
        \/ WUnlockRecord(s)
        \/ LockReadAll(s)
        \/ LockReadAllDrained(s)
        \/ UnlockReadAll(s)
        \/ PokeLock(s)
        \/ PokeUnlock(s)
    \/ \E s \in FileSessions :
        \/ GetTrainerSeek(s)
        \/ GetTrainerRead(s)
        \/ PostTrainerStat(s)
        \/ PutTrainerStat(s)
        \/ GetPokeNameSeek(s)
        \/ GetPokeNameRead(s)
        \/ PostTrainerSeek(s)
        \/ RecordSeek(s)
        \/ TrainerWrite(s)
        \/ DeleteTrainerStat(s)
        \/ DeleteTrainerWrite(s)
        \/ ReadAllStat(s)

Spec == Init /\ [][Next]_vars

\* Posts and gets alone, on a file of up to MaxPostRecords records: the
\* sessions that allocate ids and the sessions that move the file offset.
PostRequests == {r \in Requests : r.kind = "get" \/ (r.kind = "post" /\ r.pokemon = <<NumSpecies>>)}

PostAdmitted(r) ==
    Len(trainer_file) + TrainerSize * (IF r.kind = "post" THEN 1 + PostsInFlight ELSE 0)
        <= MaxPostRecords * TrainerSize

PostNext ==
    \/ \E s \in FileSessions, r \in PostRequests : PostAdmitted(r) /\ Dispatch(s, r)
    \/ \E s \in FileSessions :
        \/ GateRLock(s)
        \/ RLockRecord(s)
        \/ RUnlockRecord(s)
        \/ GateRUnlock(s)
        \/ PokeLock(s)
        \/ PokeUnlock(s)
    \/ \E s \in FileSessions :
        \/ GetTrainerSeek(s)
        \/ GetTrainerRead(s)
        \/ PostTrainerStat(s)
        \/ GetPokeNameSeek(s)
        \/ GetPokeNameRead(s)
        \/ PostTrainerSeek(s)
        \/ TrainerWrite(s)

PostSpec == Init /\ [][PostNext]_vars

\* ---------------------------------------------------- request frames
\* A request frame is its verb and the tokens after it, one space apart.
\* A token is its text w, its length n and, when it is all decimal digits,
\* the digits d (otherwise d is empty).
Num(text, digits) == [w |-> text, n |-> Len(digits), d |-> digits]
Word(text, len) == [w |-> text, n |-> len, d |-> <<>>]

\* \d+
IsDigits(tok) == tok.d # <<>>

\* [1-9][0-9]*
IsPositive(tok) == IsDigits(tok) /\ tok.d[1] # 0

\* strconv.Atoi fails on a numeral above 2^63 - 1 and then returns 2^63 - 1.
MaxInt == <<9, 2, 2, 3, 3, 7, 2, 0, 3, 6, 8, 5, 4, 7, 7, 5, 8, 0, 7>>

RECURSIVE StripZeros(_)
StripZeros(d) == IF Len(d) > 1 /\ d[1] = 0 THEN StripZeros(Tail(d)) ELSE d

RECURSIVE DigitsAbove(_, _)
DigitsAbove(a, b) ==
    IF a = <<>> THEN FALSE
    ELSE IF a[1] # b[1] THEN a[1] > b[1]
    ELSE DigitsAbove(Tail(a), Tail(b))

AtoiFails(d) ==
    LET sig == StripZeros(d)
    IN  Len(sig) > Len(MaxInt) \/ (Len(sig) = Len(MaxInt) /\ DigitsAbove(sig, MaxInt))

\* uint16(num) of the number strconv.Atoi returns for the digits d.
RECURSIVE DigitsMod16(_, _)
DigitsMod16(d, acc) ==
    IF d = <<>> THEN acc ELSE DigitsMod16(Tail(d), (acc * 10 + d[1]) % 65536)

Uint16OfAtoi(d) == IF AtoiFails(d) THEN 65535 ELSE DigitsMod16(d, 0)

\* The anchored regexps: the verb, then exactly the tokens of the pattern.
MatchGetPokeID(f) == f.verb = "REQ_POKE_ID" /\ Len(f.args) = 1 /\ IsPositive(f.args[1])
MatchGetTrainerID(f) == f.verb = "REQ_TRAINER_ID" /\ Len(f.args) = 1 /\ IsPositive(f.args[1])
MatchGetTrainerAll(f) == f.verb = "REQ_TRAINER_ALL" /\ f.args = <<>>
MatchPostTrainer(f) ==
    /\ f.verb = "POST_TRAINER"
    /\ Len(f.args) \in 1..(1 + NumPokeSlots)
    /\ \A i \in 2..Len(f.args) : IsDigits(f.args[i])
MatchPutTrainer(f) ==
    /\ f.verb = "PUT_TRAINER"
    /\ Len(f.args) \in 1..(1 + NumPokeSlots)
    /\ \A i \in 1..Len(f.args) : IsDigits(f.args[i])
MatchDelTrainer(f) == f.verb = "DEL_TRAINER" /\ Len(f.args) = 1 /\ IsDigits(f.args[1])

\* What a handler does with a frame before it takes a lock: the request
\* it goes on with, or kind "reject" and the reply it has written (none
\* when it returns without writing).
Reject(f, reply) ==
    [kind |-> "reject", id |-> 0, name |-> "", pokemon |-> <<>>, frame |-> f, reply |-> reply]

Accept(f, kind, id, name, pokemon) ==
    [kind |-> kind, id |-> id, name |-> name, pokemon |-> pokemon, frame |-> f, reply |-> <<>>]

\* The species captures of the post and put handlers: the tokens from
\* index `from` on, each converted with uint16(strconv.Atoi(..)).
SpeciesTokens(f, from) == SubSeq(f.args, from, Len(f.args))

SpeciesOf(toks) == [i \in 1..Len(toks) |-> Uint16OfAtoi(toks[i].d)]

AnyAtoiFails(toks) == \E i \in 1..Len(toks) : AtoiFails(toks[i].d)

MaxNameLen == 15

\* A variant that converts the species ids before it looks at the name.
PostConvertsFirst(f) ==
    LET name == f.args[1]
        toks == SpeciesTokens(f, 2)
    IN  IF AnyAtoiFails(toks) THEN Reject(f, <<"SERVER_ERROR">>)
        ELSE IF name.n > MaxNameLen THEN Reject(f, <<"LONG_NAME">>)
        ELSE IF toks = <<>> THEN Reject(f, <<>>)
        ELSE Accept(f, "post", 0, name.w, SpeciesOf(toks))

\* process_req_post_trainer up to its call of PostTrainer.
process_req_post_trainer(f) ==
    LET name == f.args[1]
        toks == SpeciesTokens(f, 2)
    IN  IF name.n > MaxNameLen THEN Reject(f, <<"LONG_NAME">>)
        ELSE IF AnyAtoiFails(toks) THEN Reject(f, <<"SERVER_ERROR">>)
        ELSE IF toks = <<>> THEN Reject(f, <<>>)
        ELSE Accept(f, "post", 0, name.w, SpeciesOf(toks))

process_req_put_trainer(f) ==
    LET toks == SpeciesTokens(f, 2)
    IN  IF AtoiFails(f.args[1].d) \/ AnyAtoiFails(toks) THEN Reject(f, <<"SERVER_ERROR">>)
        ELSE Accept(f, "put", Uint16OfAtoi(f.args[1].d), "", SpeciesOf(toks))

\* handle_client's switch on the frame read.
ParseFrame(f) ==
    IF MatchGetPokeID(f) THEN Accept(f, "poke", Uint16OfAtoi(f.args[1].d), "", <<>>)
    ELSE IF MatchGetTrainerID(f) THEN Accept(f, "get", Uint16OfAtoi(f.args[1].d), "", <<>>)
    ELSE IF MatchGetTrainerAll(f) THEN Accept(f, "all", 0, "", <<>>)
    ELSE IF MatchPostTrainer(f) THEN process_req_post_trainer(f)
    ELSE IF MatchPutTrainer(f) THEN process_req_put_trainer(f)
    ELSE IF MatchDelTrainer(f) THEN Accept(f, "del", Uint16OfAtoi(f.args[1].d), "", <<>>)
    ELSE Reject(f, <<"CLIENT_REQ_INVALID">>)

\* The frames a client sends: every verb, with ids on both sides of the
\* file's end and species lists of every kind the regexps tell apart.
One == Num("1", <<1>>)
Two == Num("2", <<2>>)
Zero == Num("0", <<0>>)
PastSpecies == Num("past", <<NumSpecies + 1>>)
Wrapped == Num("65537", <<6, 5, 5, 3, 7>>)
Huge == Num("10000000000000000000", <<1>> \o [i \in 1..Len(MaxInt) |-> 0])
LongName == Word("SixteenCharacter", MaxNameLen + 1)

SpeciesLists ==
    {<<>>, <<One>>, <<Two, One>>, <<One, PastSpecies>>, <<Wrapped>>, <<Huge>>,
     <<Word("x", 1)>>, [i \in 1..(NumPokeSlots + 1) |-> One]}

Frame(verb, args) == [verb |-> verb, args |-> args]

Frames ==
    {Frame("", <<>>), Frame("HELLO", <<>>), Frame("REQ_TRAINER_ALL", <<>>),
     Frame("REQ_TRAINER_ALL", <<One>>), Frame("POST_TRAINER", <<>>),
     Frame("REQ_POKE_ID", <<One>>),
     Frame("REQ_POKE_ID", <<PastSpecies>>), Frame("REQ_TRAINER_ID", <<Zero>>)}
    \cup {Frame(v, <<k>>) : v \in {"REQ_TRAINER_ID", "DEL_TRAINER"}, k \in {One, Two, Wrapped}}
    \cup {Frame("POST_TRAINER", <<name>> \o l) : name \in {Word("Ash", 3), LongName}, l \in SpeciesLists}
    \cup {Frame("PUT_TRAINER", <<k>> \o l) : k \in {One, Two}, l \in SpeciesLists}
    \cup {Frame("PUT_TRAINER", <<Wrapped, One>>)}

\* The model's bounds on a frame: the size bound, and a record lock of
\* the lock table modelled.
WireAdmitted(r) ==
    /\ Admitted(r)
    /\ r.kind \in {"get", "put", "del"} => r.id \in Ids

\* handle_client: ReallyRead returns a frame and the switch runs; a frame
\* that no handler takes past its parsing is answered on the spot.
ReadFrame(s, f) ==
    LET r == ParseFrame(f)
    IN  IF r.kind = "reject"
          THEN /\ pc[s] = "idle"
               /\ pc' = [pc EXCEPT ![s] = "HC_loop"]
               /\ req' = [req EXCEPT ![s] = r]
               /\ UNCHANGED <<lockVars, histVars, fileVars, loc>>
          ELSE WireAdmitted(r) /\ Dispatch(s, r)

\* handle_client: back to the top of the loop after such a frame.
HandleClientLoop(s) ==
    /\ pc[s] = "HC_loop"
    /\ pc' = [pc EXCEPT ![s] = "idle"]
    /\ req' = [req EXCEPT ![s] = NoReq]
    /\ UNCHANGED <<lockVars, histVars, fileVars, loc>>

\* The handler of session s is at its last statement.
AtReturn(s) ==
    pc[s] \in {"HC_loop", "RU_gate", "WU_gate", "PO_gateunlock", "RA_unlock", "GP_RUnlock"}

\* The frames the handler of session s writes to its client for the
\* request it is serving, once the record-store call has returned; a
\* record sent is "JSON", a new id is "ID".
Replies(s) ==
    LET kind == req[s].kind
        err == loc[s].err
    IN  CASE kind = "reject" -> req[s].reply
          [] kind \in {"get", "poke"} ->
                IF err = "" THEN <<"JSON">>
                ELSE IF err = "EOF" \/ (kind = "get" /\ err = "trainer ID not found")
                  THEN <<"OUT_OF_BOUNDS">>
                ELSE <<"SERVER_ERROR">>
          [] kind = "all" ->
                IF err # "" THEN <<err>>
                ELSE <<"SENDING">> \o [i \in 1..loc[s].count |-> "JSON"]
                         \o <<IF loc[s].count = 0 THEN "OUT_OF_BOUNDS" ELSE "DONE">>
          [] kind = "post" ->
                IF err # "" THEN <<"BAD_POST">>
                ELSE IF loc[s].rec.ID # 0 THEN <<"ID">> ELSE <<>>
          [] kind = "put" ->
                IF err # "" THEN <<"BAD_PUT">>
                ELSE IF req[s].id # 0 THEN <<"GOOD_PUT">> ELSE <<>>
          [] kind = "del" -> IF err # "" THEN <<"OUT_OF_BOUNDS">> ELSE <<"DELETED">>
          [] OTHER -> <<>>

\* One client at a time: a frame is read only when no request is in
\* progress on any connection, so requests are served one after another.
AllIdle == \A t \in Sessions : pc[t] = "idle"

WireNext ==
    \/ \E s \in FileSessions, f \in Frames : AllIdle /\ ReadFrame(s, f)
    \/ \E s \in FileSessions :
        \/ HandleClientLoop(s)
        \/ GateRLock(s)
        \/ RLockRecord(s)
        \/ RUnlockRecord(s)
        \/ GateRUnlock(s)
        \/ WLockRecord(s)
        \/ WUnlockRecord(s)
        \/ LockReadAll(s)
        \/ UnlockReadAll(s)
        \/ PokeLock(s)
        \/ PokeUnlock(s)
        \/ PokeRLock(s)
        \/ PokeRUnlock(s)
    \/ \E s \in FileSessions :
        \/ GetTrainerSeek(s)
        \/ GetTrainerRead(s)
        \/ PostTrainerStat(s)
        \/ PutTrainerStat(s)
        \/ GetPokeNameSeek(s)
        \/ GetPokeNameRead(s)
        \/ PostTrainerSeek(s)
        \/ RecordSeek(s)
        \/ TrainerWrite(s)
        \/ DeleteTrainerStat(s)
        \/ DeleteTrainerWrite(s)
        \/ ReadAllStat(s)
        \/ GetPokemonSeek(s)
        \/ GetPokemonRead(s)

\* The trainer file the server is started on may have been cut short.
WireInit ==
    /\ Started
    /\ sock = Connected(<<>>)
    /\ trainer_file \in InitTrainerFiles \cup CutShortFiles
    /\ alloc = NoAlloc

WireSpec == WireInit /\ [][WireNext]_vars

\* PostTrainer's allocation taken alone, on trainer files within
\* AllocSlack records of the largest: one post after another, each told
\* the file's size by Stat; a post whose species all resolve appends one
\* record, any other returns "pokemon ID not found" and writes nothing.
AllocSlack == 60  \* the smallest file started on lacks this many records

AllocInit ==
    /\ Started
    /\ sock = Connected(<<>>)
    /\ trainer_file = <<>>
    /\ alloc \in {[NoAlloc EXCEPT !.file_size = n * TrainerSize] :
                     n \in (MaxTrainerId - AllocSlack)..MaxTrainerId}

AllocPost(resolved) ==
    /\ LET next == NextTrainerId(alloc.file_size)
       IN  alloc' = IF next.err # "" THEN [alloc EXCEPT !.err = next.err, !.id = 0]
                    ELSE IF ~ resolved THEN [alloc EXCEPT !.err = "pokemon ID not found", !.id = 0]
                    ELSE [file_size |-> alloc.file_size + TrainerSize, err |-> "", id |-> next.id]
    /\ UNCHANGED <<pc, req, lockVars, fileVars, loc, wrArrival, rdBehind, srv, sock>>

AllocNext == \E resolved \in BOOLEAN : AllocPost(resolved)

AllocSpec == AllocInit /\ [][AllocNext]_vars

\* ------------------------------------------------------------ the species file
\* The handlers that read the species file, running concurrently: gets of
\* a species on both sides of the file's end, and puts and posts, which
\* resolve species names.
PokeRequests ==
    {[kind |-> "poke", id |-> i, name |-> "", pokemon |-> <<>>] : i \in 1..(NumSpecies + 1)}
    \cup {[kind |-> "put", id |-> 1, name |-> "", pokemon |-> l] : l \in PokeLists}
    \cup {[kind |-> "post", id |-> 0, name |-> n, pokemon |-> l] : n \in Names, l \in PokeLists}

PokeNext ==
    \/ \E s \in FileSessions, r \in PokeRequests : Admitted(r) /\ Dispatch(s, r)
    \/ \E s \in FileSessions :
        \/ GateRLock(s)
        \/ GateRUnlock(s)
        \/ WLockRecord(s)
        \/ WUnlockRecord(s)
        \/ PokeLock(s)
        \/ PokeLockDrained(s)
        \/ PokeUnlock(s)
        \/ PokeRLock(s)
        \/ PokeRUnlock(s)
    \/ \E s \in FileSessions :
        \/ GetTrainerSeek(s)
        \/ GetTrainerRead(s)
        \/ PostTrainerStat(s)
        \/ PutTrainerStat(s)
        \/ GetPokeNameSeek(s)
        \/ GetPokeNameRead(s)
        \/ PostTrainerSeek(s)
        \/ RecordSeek(s)
        \/ TrainerWrite(s)
        \/ GetPokemonSeek(s)
        \/ GetPokemonRead(s)

PokeSpec == Init /\ [][PokeNext]_vars

\* ------------------------------------------------------------ ReallyWrite and ReallyRead
\* One writer and one reader on a connection.  A Write takes any number
\* of the bytes it is given, at least one; a Read gives any number of the
\* bytes that have arrived, at least one and no more than its buffer has
\* room for.
MaxFrames == 2   \* payloads written on the connection
LongLen == 256   \* the length of the longest payload

serverVars == <<pc, req, lockVars, fileVars, loc, wrArrival, rdBehind, alloc, srv>>

LongPayload == [i \in 1..LongLen |-> i % 256]
ShortPayloads == {<<>>, <<7>>, <<0, 1>>}

\* The payload sequences written: up to MaxFrames of the short payloads,
\* or the long one.
PayloadSeqs == UNION {[1..n -> ShortPayloads] : n \in 0..MaxFrames} \cup {<<LongPayload>>}

FrameInit ==
    /\ Started
    /\ trainer_file = <<>>
    /\ alloc = NoAlloc
    /\ sock \in {Connected(msgs) : msgs \in PayloadSeqs}

\* ReallyWrite(fp, msg) is called and builds its packet.
ReallyWriteCall ==
    /\ sock.packet = <<>>
    /\ sock.out # <<>>
    /\ sock' = [sock EXCEPT !.packet = Packet(Head(sock.out)), !.total = 0, !.out = Tail(@)]
    /\ UNCHANGED serverVars

\* fp.Write(packet[total:]) writes k bytes; ReallyWrite returns when the
\* whole packet is written.
FpWrite(k) ==
    /\ sock.total < Len(sock.packet)
    /\ k \in 1..(Len(sock.packet) - sock.total)
    /\ LET total == sock.total + k
       IN  sock' = [sock EXCEPT !.stream = @ \o SubSeq(sock.packet, sock.total + 1, total),
                                !.total = IF total < Len(sock.packet) THEN total ELSE 0,
                                !.packet = IF total < Len(sock.packet) THEN @ ELSE <<>>]
    /\ UNCHANGED serverVars

\* The writer closes the connection when it has written everything.
CloseStream ==
    /\ sock.out = <<>>
    /\ sock.packet = <<>>
    /\ ~ sock.closed
    /\ sock' = [sock EXCEPT !.closed = TRUE]
    /\ UNCHANGED serverVars

\* fp.Read(len_buf[total:]) gives k bytes.  With the fourth byte the
\* length is known; a length of 0 makes ReallyRead return "" at once.
FpReadLen(k) ==
    /\ sock.reading = "len_buf"
    /\ k \in 1..Len(sock.stream)
    /\ k <= 4 - Len(sock.len_buf)
    /\ LET len_buf == sock.len_buf \o SubSeq(sock.stream, 1, k)
           rest == SubSeq(sock.stream, k + 1, Len(sock.stream))
       IN  sock' = IF Len(len_buf) < 4
                   THEN [sock EXCEPT !.len_buf = len_buf, !.stream = rest]
                   ELSE IF BigEndianUint32(len_buf) = 0
                   THEN [sock EXCEPT !.len_buf = <<>>, !.stream = rest, !.got = Append(@, <<>>)]
                   ELSE [sock EXCEPT !.len_buf = len_buf, !.stream = rest, !.reading = "msg"]
    /\ UNCHANGED serverVars

\* fp.Read(msg[total:]) gives k bytes; ReallyRead returns msg when it is
\* full, and is called again.
FpReadMsg(k) ==
    /\ sock.reading = "msg"
    /\ k \in 1..Len(sock.stream)
    /\ k <= BigEndianUint32(sock.len_buf) - Len(sock.msg)
    /\ LET msg == sock.msg \o SubSeq(sock.stream, 1, k)
           rest == SubSeq(sock.stream, k + 1, Len(sock.stream))
       IN  sock' = IF Len(msg) < BigEndianUint32(sock.len_buf)
                   THEN [sock EXCEPT !.msg = msg, !.stream = rest]
                   ELSE [sock EXCEPT !.msg = <<>>, !.len_buf = <<>>, !.stream = rest,
                                     !.reading = "len_buf", !.got = Append(@, msg)]
    /\ UNCHANGED serverVars

\* fp.Read finds the stream closed with nothing left: ReallyRead returns
\* "" and io.EOF.
FpReadEOF ==
    /\ sock.reading \in {"len_buf", "msg"}
    /\ sock.stream = <<>>
    /\ sock.closed
    /\ sock' = [sock EXCEPT !.reading = "returned", !.err = "EOF"]
    /\ UNCHANGED serverVars

FrameNext ==
    \/ ReallyWriteCall
    \/ CloseStream
    \/ FpReadEOF
    \/ \E k \in 1..(LongLen + 4) :
        \/ FpWrite(k)
        \/ FpReadLen(k)
        \/ FpReadMsg(k)

FrameSpec == FrameInit /\ [][FrameNext]_vars

\* ------------------------------------------------------------ connections and shutdown
\* main's goroutines and the handlers' ends.  What a handler does between
\* two frames is left out here: a running handler reads EXIT, or finds its
\* stream closed, whenever its client decides so.
storeVars == <<pc, req, lockVars, fileVars, loc, wrArrival, rdBehind, alloc, sock>>

\* The process runs until main returns.
Live == srv.main # "returned"

\* The EXIT case's send alone.
ExitSendOnly == {"exit_send"}

\* The positions at which a handler sends on client_done: the EXIT case's
\* send, the deferred send that follows it, the deferred send after EOF.
SenderStates == {"exit_send", "exit_defer", "eof_defer"}

\* Where a handler is once its send has been received.
AfterSend(h) == IF h = "exit_send" THEN "exit_defer" ELSE "done"

\* A range that produces k again.
RangeRestAgain(rest, k) == rest

\* The keys a range over the map has yet to produce after producing k.
RangeRest(rest, k) == rest \ {k}

\* SIGINT is delivered: Notify puts it in signal_chan if there is room.
Interrupt ==
    /\ Live
    /\ srv.signal_chan = <<>>
    /\ srv' = [srv EXCEPT !.signal_chan = <<"SIGINT">>]
    /\ UNCHANGED storeVars

\* The accept loop: unix.Accept returns connection c.
AcceptReturns(c) ==
    /\ Live
    /\ srv.accept = "Accept"
    /\ srv.handler[c] = "none"
    /\ srv' = [srv EXCEPT !.accept = "new_client", !.client_sock = c, !.handler[c] = "accepted"]
    /\ UNCHANGED storeVars

\* The accept loop's send on new_client meets the coordinator's select.
RecvNewClient ==
    /\ Live
    /\ srv.coord = "select"
    /\ srv.accept = "new_client"
    /\ srv' = [srv EXCEPT !.accept = "go",
                          !.handler[srv.client_sock] = "received",
                          !.clients = IF srv.shutting_down THEN @ ELSE @ \cup {srv.client_sock}]
    /\ UNCHANGED storeVars

\* The accept loop starts the connection's handler and goes back to Accept.
GoHandleClient ==
    /\ Live
    /\ srv.accept = "go"
    /\ srv' = [srv EXCEPT !.accept = "Accept", !.client_sock = NoSock,
                          !.handler[srv.client_sock] = "running"]
    /\ UNCHANGED storeVars

\* handle_client reads the frame EXIT, and is at the EXIT case's send.
ReadsExit(c) ==
    /\ Live
    /\ srv.handler[c] = "running"
    /\ srv.io[c] # "read_fails"
    /\ srv' = [srv EXCEPT !.handler[c] = "exit_send"]
    /\ UNCHANGED storeVars

\* handle_client's ReallyRead returns io.EOF: it returns, and is at the
\* deferred send.
ReadsEOF(c) ==
    /\ Live
    /\ srv.handler[c] = "running"
    /\ srv.io[c] # "read_fails"
    /\ srv' = [srv EXCEPT !.handler[c] = "eof_defer"]
    /\ UNCHANGED storeVars

\* The coordinator's select receives handler c's send on client_done.
RecvClientDone(c) ==
    /\ Live
    /\ srv.coord = "select"
    /\ srv.handler[c] \in SenderStates
    /\ srv' = [srv EXCEPT !.clients = @ \ {c}, !.handler[c] = AfterSend(@)]
    /\ UNCHANGED storeVars

\* The coordinator's select receives the signal.
RecvSignal ==
    /\ Live
    /\ srv.coord = "select"
    /\ srv.signal_chan # <<>>
    /\ srv' = [srv EXCEPT !.signal_chan = Tail(@),
                          !.shutting_down = TRUE,
                          !.atSignal = srv.clients,
                          !.range_rest = srv.clients,
                          !.coord = IF Cardinality(srv.clients) # 0 THEN "range" ELSE "close"]
    /\ UNCHANGED storeVars

\* The range produces client k, and BYE is written to it.
RangeWritesBye(k) ==
    /\ Live
    /\ srv.coord = "range"
    /\ k \in srv.range_rest
    /\ srv' = [srv EXCEPT !.range_client = k,
                          !.range_rest = RangeRest(@, k),
                          !.bye[k] = @ + 1,
                          !.coord = "client_done"]
    /\ UNCHANGED storeVars

\* The loop's receive on client_done takes handler c's send, whichever
\* handler that is, and the loop's own client leaves the map.
RangeRecvClientDone(c) ==
    /\ Live
    /\ srv.coord = "client_done"
    /\ srv.handler[c] \in SenderStates
    /\ srv' = [srv EXCEPT !.clients = @ \ {srv.range_client},
                          !.handler[c] = AfterSend(@),
                          !.coord = "range"]
    /\ UNCHANGED storeVars

\* The range is over.
RangeEnds ==
    /\ Live
    /\ srv.coord = "range"
    /\ srv.range_rest = {}
    /\ srv' = [srv EXCEPT !.coord = "close"]
    /\ UNCHANGED storeVars

\* close(accept_done), and the coordinator returns.
CloseAcceptDone ==
    /\ Live
    /\ srv.coord = "close"
    /\ srv' = [srv EXCEPT !.accept_done = TRUE, !.coord = "returned"]
    /\ UNCHANGED storeVars

\* main's receive on accept_done: main returns and the process ends.
MainReturns ==
    /\ srv.main = "accept_done"
    /\ srv.accept_done
    /\ srv' = [srv EXCEPT !.main = "returned"]
    /\ UNCHANGED storeVars

ShutdownNext ==
    \/ Interrupt
    \/ RecvNewClient
    \/ GoHandleClient
    \/ RecvSignal
    \/ RangeEnds
    \/ CloseAcceptDone
    \/ MainReturns
    \/ \E c \in Sessions :
        \/ AcceptReturns(c)
        \/ ReadsExit(c)
        \/ ReadsEOF(c)
        \/ RecvClientDone(c)
        \/ RangeWritesBye(c)
        \/ RangeRecvClientDone(c)

ShutdownInit ==
    /\ Started
    /\ sock = Connected(<<>>)
    /\ trainer_file = <<>>
    /\ alloc = NoAlloc

ShutdownSpec == ShutdownInit /\ [][ShutdownNext]_vars

\* ------------------------------------------------------------ a session on a failing stream
\* handle_client's loop on a connection whose reads or writes may begin to
\* return an error other than io.EOF (a reset connection, a broken pipe).
\* A handler of the switch is one step here: it ends at "reply", before
\* the ReallyWrite of its last reply.
IoFails(c, how) ==
    /\ Live
    /\ srv.handler[c] \in {"running", "reply"}
    /\ srv.io[c] = "ok"
    /\ srv' = [srv EXCEPT !.io[c] = how]
    /\ UNCHANGED storeVars

\* ReallyRead returns a frame other than EXIT and the switch runs the
\* case it matches, the default case included.
ReadsRequest(c) ==
    /\ Live
    /\ srv.handler[c] = "running"
    /\ srv.io[c] # "read_fails"
    /\ srv' = [srv EXCEPT !.handler[c] = "reply"]
    /\ UNCHANGED storeVars

\* ReallyRead returns "" and an error that is not io.EOF: the error is
\* printed and the switch runs on "", which is its default case.
ReadFails(c) ==
    /\ Live
    /\ srv.handler[c] = "running"
    /\ srv.io[c] = "read_fails"
    /\ srv' = [srv EXCEPT !.handler[c] = "reply"]
    /\ UNCHANGED storeVars

\* ReallyWrite(client, reply): what it returns is not looked at, and the
\* loop goes back to ReallyRead.
WritesReply(c) ==
    /\ Live
    /\ srv.handler[c] = "reply"
    /\ srv' = [srv EXCEPT !.handler[c] = "running"]
    /\ UNCHANGED storeVars

SessionNext ==
    \/ ShutdownNext
    \/ \E c \in Sessions :
        \/ \E how \in {"read_fails", "write_fails"} : IoFails(c, how)
        \/ ReadsRequest(c)
        \/ ReadFails(c)
        \/ WritesReply(c)

SessionSpec == ShutdownInit /\ [][SessionNext]_vars

\* A client that has been written BYE answers: its handler reads EXIT or
\* finds the stream closed.
AnswersBye(c) == srv.bye[c] > 0 /\ (ReadsExit(c) \/ ReadsEOF(c))

\* The goroutines of main are scheduled, a select takes a case that stays
\* ready, and every client answers BYE.
FairShutdownSpec ==
    /\ ShutdownSpec
    /\ WF_vars(RecvSignal)
    /\ WF_vars(\E k \in Sessions : RangeWritesBye(k))
    /\ WF_vars(\E c \in Sessions : RangeRecvClientDone(c))
    /\ WF_vars(RangeEnds)
    /\ WF_vars(CloseAcceptDone)
    /\ WF_vars(MainReturns)
    /\ WF_vars(GoHandleClient)
    /\ \A c \in Sessions : WF_vars(AnswersBye(c))

\* The record-store call of a handler, for the lock manager alone: the
\* store functions take no lock, so the call is one step here.
StoreCall(s) ==
    /\ req[s].kind \in Kinds
    /\ pc[s] = BodyEntry(req[s].kind)
    /\ pc' = [pc EXCEPT ![s] = BodyExit(req[s].kind)]
    /\ UNCHANGED <<req, lockVars, histVars, fileVars, loc>>

LockNext ==
    \/ \E s \in Sessions, r \in LockRequests : Dispatch(s, r)
    \/ \E s \in Sessions : LockStep(s)
    \/ \E s \in Sessions : StoreCall(s)

LockInit == Init /\ trainer_file = <<>>

LockSpec == LockInit /\ [][LockNext]_vars

\* The lock manager with every request on trainer ids 1..MaxFairId, under
\* the scheduling its liveness rests on: a goroutine that can run does
\* run, and a goroutine blocked in sync.Mutex.Lock (rw.w) gets the mutex
\* when it is released again and again (the mutex's starvation mode hands
\* it to the longest waiter).  Weak fairness of the steps alone does not
\* give that: two other read-alls could pass rw.w to each other for ever.
FairRequests == {r \in LockRequests : r.id <= MaxFairId}

FairNext ==
    \/ \E s \in Sessions, r \in FairRequests : Dispatch(s, r)
    \/ \E s \in Sessions : LockStep(s)
    \/ \E s \in Sessions : StoreCall(s)

FairLockSpec ==
    /\ LockInit
    /\ [][FairNext]_vars
    /\ \A s \in Sessions :
        /\ WF_vars(LockStep(s) \/ StoreCall(s))
        /\ SF_vars(LockReadAll(s))
        /\ SF_vars(PokeLock(s))

\* The per-id lock state of id, an absent entry being the zero state.
RecLock(id) == GetRecordLock(TrainerRecLocks, id)[id]

\* ================================================================ claims

\* C1: for every trainer id k, at most one session holds the write lock on
\* k, and while one does no session holds a read lock on k; in the lock's
\* own counters NumWriting = 1 implies NumReading = 0.
C1_WriterExcludes ==
    \A k \in Ids :
        /\ Cardinality({s \in Sessions : req[s].id = k /\ HoldsWrite(s)}) <= 1
        /\ (\E s \in Sessions : req[s].id = k /\ HoldsWrite(s)) => ReadersOf(k) = {}
        /\ RecLock(k).NumWriting = 1 => RecLock(k).NumReading = 0
        /\ RecLock(k).NumWriting \in {0, 1}

\* A writer holds k while a reader and a second writer of k wait for it.
C1_Witness ==
    \E k \in Ids : \E w, r, q \in Sessions :
        /\ req[w].id = k /\ HoldsWrite(w)
        /\ req[r].id = k /\ pc[r] = "RL_wait"
        /\ req[q].id = k /\ pc[q] = "WL_wait"

\* C2: no reachable state is a deadlock: whenever some session has not
\* finished its operation, some such session can take a step.
C2_NoDeadlock ==
    (\E s \in Sessions : pc[s] # "idle")
        => \E s \in Sessions : pc[s] # "idle" /\ ENABLED (LockStep(s) \/ StoreCall(s))

\* Every session is inside an operation and two of them are blocked.
C2_Witness ==
    /\ \A s \in Sessions : pc[s] # "idle"
    /\ \E s, t \in Sessions :
        /\ s # t
        /\ ~ ENABLED (LockStep(s) \/ StoreCall(s))
        /\ ~ ENABLED (LockStep(t) \/ StoreCall(t))

\* C3: while a session holds the read-all gate no other session is inside
\* a per-id operation or a post's GlobalLock.RLock..RUnlock section, and no
\* second session holds the read-all gate.
C3_ReadAllExcludes ==
    \A r \in Sessions :
        HoldsReadAll(r) =>
            /\ GlobalLock.w = r
            /\ \A s \in Sessions \ {r} : ~ InGateShared(s) /\ ~ HoldsReadAll(s)

\* A read-all holds the gate while a per-id operation is parked at it.
C3_Witness ==
    \E r, s \in Sessions : HoldsReadAll(r) /\ pc[s] \in {"RL_blocked", "WL_blocked"}

\* C4: writers of one id acquire the write lock in the order in which they
\* pushed their marker: a writer acquires only when no writer that pushed
\* before it is still waiting.
C4_WriterFIFO ==
    [][\A s \in Sessions :
          (~ HoldsWrite(s) /\ HoldsWrite(s)')
              => \/ wrArrival[req[s]'.id] = <<>>
                 \/ Head(wrArrival[req[s]'.id]) = s]_vars

\* Two writers of one id are queued, in order, behind a holder, and have
\* been woken.
C4_Witness ==
    \E k \in Ids :
        /\ Len(wrArrival[k]) = 2
        /\ \A i \in 1..2 : pc[wrArrival[k][i]] = "WL_woken"

\* C5: writer preference: a reader holds the read lock on k only when every
\* writer that was queued or active at the reader's first evaluation of its
\* wait condition has acquired and released the write lock.
C5_WriterPreference ==
    \A s \in Sessions : HoldsRead(s) => rdBehind[s] = {}

\* A reader that found writers queued or active and waited has been woken
\* after every one of them released.
C5_Witness ==
    \E s \in Sessions :
        /\ pc[s] = "RL_woken"
        /\ rdBehind[s] = {}
        /\ WritersOf(req[s].id) = {}

\* C6: per-id locks conflict only on the same id and only when a writer is
\* involved.  A per-id operation is parked at the gate only by a read-all;
\* a reader of j waits only while a writer of j is active or queued and
\* passes otherwise; a writer of j waits only while another session reads,
\* writes or is queued on j and passes otherwise.
C6_ConflictOnlySameId ==
    \A s \in Sessions :
        LET j == req[s].id
            others == (WritersOf(j) \cup ReadersOf(j)) \ {s}
        IN  /\ pc[s] \in {"RL_blocked", "WL_blocked"} => GlobalLock.w # None
            /\ pc[s] = "RL_wait" => WritersOf(j) \ {s} # {}
            /\ pc[s] = "WL_wait" =>
                  \/ (ReadersOf(j) \cup {t \in Sessions : req[t].id = j /\ HoldsWrite(t)}) \ {s} # {}
                  \/ Head(wrArrival[j]) # s
            /\ (pc[s] \in {"RL_enter", "RL_woken"} /\ WritersOf(j) \ {s} = {})
                  => ~ ReaderMustWait(RecLock(j))
            /\ (pc[s] \in {"WL_enter", "WL_woken"} /\ others = {})
                  => WriterMayProceed([RecLock(j) EXCEPT !.WrQueue =
                                          IF pc[s] = "WL_enter" THEN WrQueuePushBack(@, s) ELSE @], s)

\* Two sessions hold the read lock on one id while a third writes another.
C6_Witness ==
    \E a, b, c \in Sessions :
        /\ a # b
        /\ HoldsRead(a) /\ HoldsRead(b) /\ req[a].id = req[b].id
        /\ HoldsWrite(c) /\ req[c].id # req[a].id

\* C7: once a read-all is waiting in LockReadAll, no per-id operation that
\* had not yet acquired the global gate's shared side acquires it before
\* that read-all has acquired the gate.
C7_NoNewSharedWhileWaiting ==
    [][\A r \in Sessions :
          (ReadAllWaiting(r) /\ ~ HoldsReadAll(r)')
              => GlobalLock'.readers \subseteq GlobalLock.readers]_vars

\* Parked in GlobalLock.RLock() behind a read-all.
BlockedAtGate(s) == pc[s] \in {"RL_blocked", "WL_blocked", "PO_blocked"}

\* C8: a read-all waiting in LockReadAll eventually acquires the gate, and
\* a per-id operation blocked at the gate by a read-all eventually holds
\* the gate's shared side.
C8_GateProgress ==
    \A s \in Sessions :
        /\ ReadAllWaiting(s) ~> HoldsReadAll(s)
        /\ BlockedAtGate(s) ~> InGateShared(s)

\* One read-all holds the gate, a second waits in LockReadAll and a per-id
\* operation is parked at the gate.
C8_Witness ==
    \E h, r, s \in Sessions :
        /\ HoldsReadAll(h)
        /\ ReadAllWaiting(r)
        /\ BlockedAtGate(s)

\* The stored id of slot k of the trainer file.
StoredId(k) == trainer_file[(k - 1) * TrainerSize + 1]

NumSlots == Len(trainer_file) \div TrainerSize

\* C9: the record stored in slot k, at offset (k-1)*recordSize, has stored
\* id k or 0, for every k up to fileSize/recordSize.
C9_SlotHoldsOwnId ==
    \A k \in 1..NumSlots : StoredId(k) \in {k, 0}

\* C10: the trainer file size is a multiple of the trainer record size.
C10_SizeMultiple == Len(trainer_file) % TrainerSize = 0

\* A post has appended a second record and a delete has blanked one.
C10_Witness ==
    /\ NumSlots = 2
    /\ \E k \in 1..2 : StoredId(k) = 0
    /\ \E k \in 1..2 : StoredId(k) # 0

\* A post whose PostTrainer call has returned without error; the id it
\* returns is the ID of the record it built.
PostReturned(s) ==
    /\ req[s].kind = "post"
    /\ pc[s] \in {"PK_Unlock", "PO_gateunlock"}
    /\ loc[s].err = ""

\* C11: every successful post grows the trainer file by exactly one record
\* size and returns an id equal to the new fileSize/recordSize, also when
\* other sessions run per-id operations at the same time.
C11_PostGrowsByOne ==
    [][\A s \in Sessions :
          (pc[s] = "PS_Write" /\ PostReturned(s)')
              => /\ Len(trainer_file') = Len(trainer_file) + TrainerSize
                 /\ loc'[s].rec.ID = Len(trainer_file') \div TrainerSize]_vars

\* C12: ids returned by successful posts are pairwise distinct: two posts
\* that have both returned and not yet replied return different ids.
C12_PostIdsDistinct ==
    \A s, t \in Sessions :
        (s # t /\ PostReturned(s) /\ PostReturned(t)) => loc[s].rec.ID # loc[t].rec.ID

\* C13: a post that finds the trainer file holding MaxTrainerId records
\* returns "next ID out of range" and leaves the file's size as it was, and
\* the id a successful post returns is in 1..MaxTrainerId.
C13_FullFileRejects ==
    [][/\ alloc.file_size = MaxTrainerId * TrainerSize
            => (alloc'.err = "next ID out of range" /\ alloc'.file_size = alloc.file_size)
       /\ alloc'.err = "" => alloc'.id \in 1..MaxTrainerId]_vars

C13_Witness ==
    /\ alloc.file_size = MaxTrainerId * TrainerSize
    /\ alloc.err = "next ID out of range"

\* Slot k of the trainer file holds a deleted record.
Blank(k) == k <= NumSlots /\ StoredId(k) = 0

\* GetTrainer's read returns to the get handler of session s.
GetReads(s) ==
    req[s].kind = "get" /\ pc[s] = "GT_Read" /\ pc'[s] = "RU_rec"

\* DeleteTrainer's write has returned: the delete of session s succeeds.
DeleteSucceeds(s) ==
    req[s].kind = "del" /\ pc[s] = "DT_Write" /\ pc'[s] = "WU_rec"

\* C14: a successful delete(k) leaves the trainer file the size it was and
\* slot k blank, and a get(k) that finds slot k blank returns not-found.
C14_DeleteThenGet ==
    [][\A s \in Sessions :
          /\ DeleteSucceeds(s)
                => (Len(trainer_file') = Len(trainer_file) /\ Blank(req[s].id)')
          /\ (GetReads(s) /\ Blank(req[s].id))
                => loc'[s].err = "trainer ID not found"]_vars

\* The record in slot k of the trainer file.
Slot(k) == DecodeTrainer(SubSeq(trainer_file, (k - 1) * TrainerSize + 1, k * TrainerSize))

\* PutTrainer's write has returned: the put of session s succeeds.
PutSucceeds(s) ==
    req[s].kind = "put" /\ pc[s] = "PT_Write" /\ pc'[s] = "PK_Unlock"

\* The species ids of the list L, zero-padded to the record's slots.
Padded(L) == [i \in 1..NumPokeSlots |-> IF i <= Len(L) THEN L[i] ELSE 0]

\* C15: a successful put(k, L) leaves in slot k the stored id k, the name
\* the slot held and the species ids L followed by zeros, and a get(k)
\* that finds a live record in slot k returns that record.
C15_PutThenGet ==
    [][\A s \in Sessions :
          /\ PutSucceeds(s)
                => /\ req[s].id <= NumSlots'
                   /\ Slot(req[s].id)'.ID = req[s].id
                   /\ Slot(req[s].id)'.Name = Slot(req[s].id).Name
                   /\ [i \in 1..NumPokeSlots |-> Slot(req[s].id)'.Poke[i].ID] = Padded(req[s].pokemon)
          /\ (GetReads(s) /\ req[s].id <= NumSlots /\ ~ Blank(req[s].id))
                => (loc'[s].err = "" /\ loc'[s].rec = Slot(req[s].id))]_vars

\* GetPokeName finds a name for the species id: its read at the id's
\* offset in the species file is not short.
Resolves(id) == ReadError(FileRead(PokeFile, Uint16Pred(id) * PokeSize + 1, 1), 1) = ""

\* A species id among the first NumPokeSlots of the list fails to resolve.
SomeUnresolved(L) == \E i \in 1..Min(Len(L), NumPokeSlots) : ~ Resolves(L[i])

\* The post or put handler of session s is past its store call.
AfterStoreCall(s) == pc[s] \in {"PK_Unlock", "PO_gateunlock", "WU_rec", "WU_gate"}

\* C16: a post or put with a species id that fails to resolve never gets
\* to the Seek and Write of its record, and is answered BAD_POST,
\* respectively BAD_PUT with the error.
C16_RejectedBeforeWrite ==
    \A s \in Sessions :
        (req[s].kind \in {"post", "put"} /\ SomeUnresolved(req[s].pokemon))
            => /\ pc[s] \notin {"PS_Seek", "PS_Write", "PT_Seek", "PT_Write"}
               /\ AfterStoreCall(s)
                    => /\ loc[s].err # ""
                       /\ Replies(s) = <<IF req[s].kind = "post" THEN "BAD_POST" ELSE "BAD_PUT">>

\* A request whose first species id resolved and whose second did not has
\* returned from the store.
C16_Witness ==
    \E s \in Sessions :
        /\ req[s].kind \in {"post", "put"}
        /\ Len(req[s].pokemon) = 2 /\ Resolves(req[s].pokemon[1]) /\ ~ Resolves(req[s].pokemon[2])
        /\ AfterStoreCall(s)
        /\ loc[s].err = "pokemon ID not found"
        /\ loc[s].idx = 1

\* The decimal value of a digits token is above the number of records in
\* the species file (NumSpecies has one digit).
ExceedsSpecies(tok) ==
    LET sig == StripZeros(tok.d)
    IN  Len(sig) > 1 \/ sig[1] > NumSpecies

\* A frame the post or put regexp matches, with a name the post handler
\* takes and numbers strconv.Atoi takes, that names a species id past the
\* end of the species file.
NamesPastEnd(f) ==
    /\ \/ MatchPostTrainer(f) /\ f.args[1].n <= MaxNameLen
       \/ MatchPutTrainer(f) /\ ~ AtoiFails(f.args[1].d)
    /\ ~ AnyAtoiFails(SpeciesTokens(f, 2))
    /\ \E i \in 2..Len(f.args) : ExceedsSpecies(f.args[i])

\* C17: a POST_TRAINER or PUT_TRAINER frame naming a species id above the
\* number of species records is answered BAD_POST, respectively BAD_PUT.
C17_PastEndRejected ==
    \A s \in Sessions :
        (AtReturn(s) /\ NamesPastEnd(req[s].frame))
            => Replies(s) = <<IF req[s].frame.verb = "POST_TRAINER" THEN "BAD_POST" ELSE "BAD_PUT">>

\* GetTrainer's read returns to the put or delete of session s.
WriterReads(s) ==
    req[s].kind \in {"put", "del"} /\ pc[s] = "GT_Read" /\ pc'[s] # "GT_Read"

\* C18: a slot that holds a deleted record holds one for ever, and a put
\* or delete of its id returns an error from its GetTrainer call without
\* going on to its write.
C18_DeletionTerminal ==
    [][/\ \A k \in 1..NumSlots : Blank(k) => Blank(k)'
       /\ \A s \in Sessions :
            (WriterReads(s) /\ Blank(req[s].id))
                => (loc'[s].err # "" /\ pc'[s] = BodyExit(req[s].kind))]_vars

\* C19: a handler that returns has written a reply to the frame it was
\* given.
C19_EveryFrameAnswered ==
    \A s \in Sessions : AtReturn(s) => Replies(s) # <<>>

\* A frame that is no request: the empty payload, a verb no regexp knows,
\* or a POST_TRAINER or PUT_TRAINER with no species id or with more than
\* NumPokeSlots of them.
NoRequestForm(f) ==
    \/ f.verb \notin {"REQ_POKE_ID", "REQ_TRAINER_ID", "REQ_TRAINER_ALL", "POST_TRAINER",
                      "PUT_TRAINER", "DEL_TRAINER", "REQ_LOG_FILE", "EXIT"}
    \/ /\ f.verb \in {"POST_TRAINER", "PUT_TRAINER"}
       /\ Len(f.args) = 1 \/ Len(f.args) > 1 + NumPokeSlots

\* C20: such a frame is given to no handler that takes a lock or touches
\* the trainer file, and is answered CLIENT_REQ_INVALID.
C20_InvalidFrameRejected ==
    \A s \in Sessions :
        (pc[s] # "idle" /\ NoRequestForm(req[s].frame))
            => (req[s].kind = "reject" /\ Replies(s) = <<"CLIENT_REQ_INVALID">>)

\* The live records of the trainer file, in slot order.
LiveRecords == SelectSeq([k \in 1..NumSlots |-> Slot(k)], LAMBDA r : r.ID # 0)

\* The read-all of session s has left its loop and still holds the lock.
ScanDone(s) == req[s].kind = "all" /\ pc[s] = "RA_unlock"

\* C21: the read-all reply is OUT_OF_BOUNDS alone on an empty file and
\* FILE_ERROR alone on a file whose size is no multiple of the record
\* size; otherwise it is SENDING, one record frame for each live record in
\* slot order and none for a blank slot, then DONE, or OUT_OF_BOUNDS when
\* no record is live.
C21_ReadAllReply ==
    \A s \in Sessions :
        ScanDone(s) =>
            IF Len(trainer_file) = 0 THEN Replies(s) = <<"OUT_OF_BOUNDS">>
            ELSE IF ~ FileSizeOk(Len(trainer_file)) THEN Replies(s) = <<"FILE_ERROR">>
            ELSE /\ loc[s].sent = LiveRecords
                 /\ Replies(s) = <<"SENDING">> \o [i \in 1..Len(LiveRecords) |-> "JSON"]
                                    \o <<IF LiveRecords = <<>> THEN "OUT_OF_BOUNDS" ELSE "DONE">>

\* A scan of a file with a blank slot before a live one has ended.
C21_Witness ==
    \E s \in Sessions :
        /\ ScanDone(s)
        /\ NumSlots = 2 /\ Blank(1) /\ ~ Blank(2)
        /\ loc[s].sent = <<Slot(2)>>

\* The read-all of session s is between its LockReadAll and UnlockReadAll.
Scanning(s) == req[s].kind = "all" /\ pc[s] \in {"RA_Stat", "GT_Seek", "GT_Read", "RA_unlock"}

\* C22: while a read-all holds the lock no step changes the trainer file,
\* and the records it has sent when its loop ends are the live records of
\* that file.
C22_ScanAtOneInstant ==
    [][\A s \in Sessions :
          Scanning(s) => /\ trainer_file' = trainer_file
                         /\ ScanDone(s)' => loc'[s].sent = LiveRecords']_vars

\* A scan has sent a record while a post, put or delete of another session
\* waits at the gate.
C22_Witness ==
    \E s \in Sessions, t \in GateParked :
        /\ ScanDone(s)
        /\ loc[s].sent # <<>>
        /\ req[t].kind \in {"post", "put", "del"}

\* Handler c has sent on client_done and the coordinator has received it.
Signalled(c) == srv.handler[c] \in {"exit_defer", "done"}

\* C23: accept_done is closed only when every connection that was in the
\* coordinator's clients map when it took the signal has a handler that
\* has signalled on client_done and is returning or has returned.
C23_StoppedAfterAllDone ==
    srv.accept_done => \A c \in srv.atSignal : Signalled(c)

\* Connection c has not been received on new_client.
Unregistered(c) == srv.handler[c] \in {"none", "accepted"}

\* C24: once the coordinator has taken the signal, every connection in
\* its clients map at that moment is written one BYE frame when the range
\* reaches it and none before or after, no other connection is written
\* any, and a connection not yet received on new_client by then is never
\* put in the map and never gets a handler.
C24_OneByeEach ==
    /\ [](\A c \in Sessions :
            srv.bye[c] = IF srv.shutting_down /\ c \in srv.atSignal \ srv.range_rest THEN 1 ELSE 0)
    /\ [][srv.shutting_down =>
            /\ srv'.clients \subseteq srv.clients
            /\ \A c \in Sessions : Unregistered(c) => Unregistered(c)']_vars

C24_Witness ==
    /\ srv.accept_done
    /\ Cardinality(srv.atSignal) = 2
    /\ \E c \in Sessions : srv.handler[c] = "accepted" /\ c \notin srv.atSignal /\ srv.accept = "new_client"

\* C25: an interrupt waiting in signal_chan leads to main's return: the
\* coordinator takes it, every receive of its shutdown loop is met by a
\* handler's send, accept_done is closed and main returns.
C25_ShutdownTerminates == (srv.signal_chan # <<>>) ~> (srv.main = "returned")

C25_Witness ==
    /\ srv.main = "returned"
    /\ Cardinality(srv.atSignal) = 2
    /\ \A c \in srv.atSignal : srv.bye[c] = 1 /\ srv.handler[c] \in SenderStates \cup {"done"}
    /\ \E c \in srv.atSignal : srv.handler[c] = "exit_defer"

\* The bytes of the frames of a sequence of payloads, one after another.
RECURSIVE FrameBytes(_)
FrameBytes(msgs) == IF msgs = <<>> THEN <<>> ELSE Packet(Head(msgs)) \o FrameBytes(Tail(msgs))

\* C26: the strings ReallyRead returns are the payloads written, in the
\* order written and with none left out when it meets the end of the
\* stream; the length it reads is the length of the payload that
\* follows; and the bytes read, those in the stream and those still to be
\* written are together the frames of the payloads, each a four-byte
\* big-endian length and then the payload.
C26_FramingRoundTrip ==
    /\ sock.got = SubSeq(sock.msgs, 1, Len(sock.got))
    /\ sock.err # "" => sock.got = sock.msgs /\ sock.len_buf = <<>>
    /\ sock.reading = "msg" => BigEndianUint32(sock.len_buf) = Len(sock.msgs[Len(sock.got) + 1])
    /\ FrameBytes(sock.got) \o sock.len_buf \o sock.msg \o sock.stream
         \o SubSeq(sock.packet, sock.total + 1, Len(sock.packet)) \o FrameBytes(sock.out)
       = FrameBytes(sock.msgs)

C26_Witness ==
    /\ sock.err = "EOF"
    /\ sock.got = <<LongPayload>>
    /\ sock.got = sock.msgs

\* The status token of the class an error of the record store belongs
\* to: not found, file corrupt, validation (the operation's own token),
\* I/O or unexpected.
ClassToken(kind, err) ==
    CASE err \in {"EOF", "trainer ID not found"} -> "OUT_OF_BOUNDS"
      [] err = "file size is not a multiple of record size" -> "FILE_ERROR"
      [] err \in {"pokemon ID not found", "next ID out of range"} ->
            IF kind = "post" THEN "BAD_POST" ELSE "BAD_PUT"
      [] OTHER -> "SERVER_ERROR"

\* C27: a get, put, delete or post that the record store fails is
\* answered with the one token of the failure's class.
C27_FailureByClass ==
    \A s \in Sessions :
        (AtReturn(s) /\ req[s].kind \in {"get", "put", "del", "post", "poke"} /\ loc[s].err # "")
            => Replies(s) = <<ClassToken(req[s].kind, loc[s].err)>>

\* A frame that ReqPostTrainer matches and whose name is too long.
LongNamePost(f) == MatchPostTrainer(f) /\ f.args[1].n > MaxNameLen

\* C28: a POST_TRAINER frame with a name of more than 15 bytes is
\* answered LONG_NAME and nothing else, goes no further than the
\* handler's parsing, and leaves the trainer file as it is.
C28_LongNameOnly ==
    [][\A s \in Sessions :
          (req'[s] # req[s] /\ req'[s].kind # "none" /\ LongNamePost(req'[s].frame))
              => /\ req'[s].kind = "reject"
                 /\ req'[s].reply = <<"LONG_NAME">>
                 /\ pc'[s] = "HC_loop"
                 /\ trainer_file' = trainer_file]_vars

C28_Witness ==
    \E s \in Sessions :
        /\ pc[s] = "HC_loop"
        /\ req[s].frame = Frame("POST_TRAINER", <<LongName, Huge>>)
        /\ req[s].reply = <<"LONG_NAME">>
        /\ Len(trainer_file) = TrainerSize

\* The numeral of a token stands for a number above the number of records
\* in the trainer file.
ExceedsRecords(tok) ==
    LET sig == StripZeros(tok.d)
    IN  Len(sig) > 1 \/ sig[1] > NumSlots

\* Session s serves a get, put or delete whose frame names a trainer id
\* past the last record of a trainer file of whole records.
IdPastEnd(s) ==
    /\ req[s].kind \in {"get", "put", "del"}
    /\ FileSizeOk(Len(trainer_file))
    /\ ExceedsRecords(req[s].frame.args[1])

\* C29: a get, put or delete of a trainer id past the last record changes
\* nothing in the trainer file and is answered OUT_OF_BOUNDS, for a put
\* BAD_PUT.
C29_PastEndNotFound ==
    [][\A s \in Sessions :
          IdPastEnd(s) =>
              /\ trainer_file' = trainer_file
              /\ AtReturn(s)' =>
                    Replies(s)' = <<IF req[s].kind = "put" THEN "BAD_PUT" ELSE "OUT_OF_BOUNDS">>]_vars

\* The trainer file does not end on a record boundary.
EndsInsideRecord == Len(trainer_file) % TrainerSize # 0

\* The replies that tell a client its post, put, delete or read-all was
\* carried out.
SuccessTokens == {"ID", "GOOD_PUT", "DELETED", "SENDING", "DONE", "JSON"}

\* C30: while the trainer file does not end on a record boundary no step
\* changes it, and no post, put, delete or read-all returns with a reply
\* that reports success.
C30_CorruptFileRefused ==
    [][EndsInsideRecord =>
          /\ trainer_file' = trainer_file
          /\ \A s \in Sessions :
                (AtReturn(s)' /\ req'[s].kind \in {"post", "put", "del", "all"})
                    => \A i \in 1..Len(Replies(s)') : Replies(s)'[i] \notin SuccessTokens]_vars

C30_Witness ==
    \E s \in Sessions :
        /\ EndsInsideRecord
        /\ AtReturn(s)
        /\ req[s].kind = "del"
        /\ loc[s].err = "file size is not a multiple of record size"

\* Session s appears in no lock: it holds neither side of GlobalLock or
\* poke_lock and has no marker in a writer queue.
HoldsNothing(s) ==
    /\ s \notin GlobalLock.readers /\ GlobalLock.w # s
    /\ s \notin poke_lock.readers /\ poke_lock.w # s
    /\ \A k \in Ids : \A i \in 1..Len(RecLock(k).WrQueue) : RecLock(k).WrQueue[i] # s

\* The sessions inside a handler that names trainer id k.
InHandlerOn(k) == {t \in Sessions : pc[t] # "idle" /\ req[t].id = k}

C32_AbandonedOnFailure ==
    [][\A c \in Sessions :
          (srv.io[c] # "ok" /\ srv.handler[c] \in {"running", "reply"})
              => srv'.handler[c] \in {srv.handler[c], "exit_send", "eof_defer", "done"}]_vars

\* GetPokemon has returned to the get of session s.
PokeReturned(s) == req[s].kind = "poke" /\ pc[s] = "GP_RUnlock"

\* The names GetPokeName has resolved so far for the post or put of
\* session s are those stored at the ids asked for.
NamesResolved(s) ==
    \A i \in 1..loc[s].idx :
        loc[s].rec.Poke[i] = [ID |-> req[s].pokemon[i], Name |-> PokeNameOf(req[s].pokemon[i])]

\* C33: a get of species n returns the record stored at slot n, or EOF
\* (OUT_OF_BOUNDS on the wire) when n is past the end, and every name a
\* post or put resolves is the one stored at the id asked for.
C33_SpeciesReadsOwnSlot ==
    \A s \in Sessions :
        /\ PokeReturned(s) =>
              IF req[s].id <= NumSpecies
                THEN loc[s].err = "" /\ loc[s].count = req[s].id
                ELSE loc[s].err = "EOF"
        /\ (req[s].kind \in {"post", "put"} /\ pc[s] \in {"PN_Seek", "PN_Read", "PS_Seek", "PT_Seek"})
              => NamesResolved(s)

\* Every other session that is in a handler works on another id than the
\* one session s asked for, or is a post.
OthersElsewhere(s) ==
    \A t \in Sessions \ {s} : pc[t] # "idle" => req[t].id # req[s].id

\* C34: a get of trainer k, reading under the read lock of k while the
\* other sessions run operations on other ids and posts, returns the
\* record stored in slot k, or an error when slot k is blank or absent.
C34_GetReadsOwnSlot ==
    [][\A s \in Sessions :
          (GetReads(s) /\ OthersElsewhere(s))
              => IF req[s].id <= NumSlots /\ ~ Blank(req[s].id)
                   THEN loc'[s].err = "" /\ loc'[s].rec = Slot(req[s].id)
                   ELSE loc'[s].err # ""]_vars

\* The positions of the trainer file that lie in slot k.
SlotCells(k) == ((k - 1) * TrainerSize + 1)..(k * TrainerSize)

\* The positions at which the trainer file after this step differs from
\* the file before it, positions only one of the two has included.
ChangedCells ==
    {i \in 1..(Len(trainer_file) + Len(trainer_file')) :
        \/ (i <= Len(trainer_file)) # (i <= Len(trainer_file'))
        \/ i <= Len(trainer_file) /\ i <= Len(trainer_file') /\ trainer_file'[i] # trainer_file[i]}

\* Session s takes the step that writes its record to the trainer file.
WritesRecord(s) == pc[s] \in {"PS_Write", "PT_Write", "DT_Write"} /\ pc'[s] # pc[s]

\* C36: a put or delete of k changes no cell outside slot k, a post
\* changes no cell the file already had, and no other step changes the
\* trainer file at all.
C36_FrameOfWrites ==
    [][/\ \A s \in Sessions :
            WritesRecord(s) =>
                IF req[s].kind \in {"put", "del"}
                  THEN ChangedCells \subseteq SlotCells(req[s].id)
                  ELSE ChangedCells \cap (1..Len(trainer_file)) = {}
       /\ (\A s \in Sessions : ~ WritesRecord(s)) => trainer_file' = trainer_file]_vars

\* C35: a writer whose marker is in WrQueue of its id eventually holds the
\* write lock of that id, however many readers of the id keep arriving.
C35_WriterNotStarved ==
    \A s \in Sessions : WriteQueued(s) ~> HoldsWrite(s)

\* A writer is queued on an id while one reader holds the id's read lock
\* and a later reader of the same id waits behind the writer's marker.
C35_Witness ==
    \E w, r, t \in Sessions :
        /\ WriteQueued(w)
        /\ HoldsRead(r) /\ req[r].id = req[w].id
        /\ pc[t] = "RL_wait" /\ req[t].kind = "get" /\ req[t].id = req[w].id
        /\ RecLock(req[w].id).NumReading = 1
        /\ RecLock(req[w].id).WrQueue = <<w>>

\* The sessions between WLockRecord's return and WUnlockRecord's store of
\* NumWriting on id, and those waiting in WLockRecord with a marker.
WriteHoldersOf(id) == {t \in Sessions : req[t].id = id /\ HoldsWrite(t)}

WriteWaitersOf(id) == {t \in Sessions : req[t].id = id /\ WriteQueued(t)}

\* The markers of the queue q.
Markers(q) == {q[i] : i \in 1..Len(q)}

\* C37: for every id, NumReading is the number of sessions that hold the
\* read lock, NumWriting is 0 or 1 and is the number of sessions that hold
\* the write lock, and WrQueue holds one marker for each writer waiting in
\* WLockRecord and none for any other session.
C37_CountersMatchHolders ==
    \A k \in Ids :
        /\ RecLock(k).NumReading = Cardinality(ReadersOf(k))
        /\ RecLock(k).NumWriting \in {0, 1}
        /\ RecLock(k).NumWriting = Cardinality(WriteHoldersOf(k))
        /\ Markers(RecLock(k).WrQueue) = WriteWaitersOf(k)
        /\ Len(RecLock(k).WrQueue) = Cardinality(WriteWaitersOf(k))

\* Two sessions hold the write locks of two ids, and a third waits with
\* its marker in the queue of one of them.
C37_Witness ==
    \E h, g, w \in Sessions :
        /\ HoldsWrite(h) /\ HoldsWrite(g) /\ req[h].id # req[g].id
        /\ WriteQueued(w) /\ req[w].id = req[h].id
        /\ RecLock(req[h].id) = [NewRecordLock EXCEPT !.NumWriting = 1, !.WrQueue = <<w>>]
        /\ RecLock(req[g].id) = [NewRecordLock EXCEPT !.NumWriting = 1]

\* Parked in Cond.Wait of RLockRecord, or woken and not yet past the loop.
ReaderWaiting(s) == req[s].kind = "get" /\ pc[s] \in {"RL_wait", "RL_woken"}

\* The condition a goroutine parked in Cond.Wait waits for stops holding
\* against it: a reader's loop condition, a writer's break condition.
MayGoOn(s, locks) ==
    \/ pc[s] = "RL_wait" /\ ~ ReaderMustWait(GetRecordLock(locks, req[s].id)[req[s].id])
    \/ pc[s] = "WL_wait" /\ WriterMayProceed(GetRecordLock(locks, req[s].id)[req[s].id], s)

\* C38: a reader waiting in RLockRecord(k) acquires the read lock of k
\* unless a writer of k is active or queued again, and a step that makes
\* the condition of a parked goroutine true wakes it.
C38_NoLostWakeup ==
    /\ \A s \in Sessions :
          ReaderWaiting(s) ~> (HoldsRead(s) \/ WritersOf(req[s].id) # {})
    /\ [][\A s \in Sessions :
             (pc[s] \in {"RL_wait", "WL_wait"} /\ ~ MayGoOn(s, TrainerRecLocks)
                 /\ MayGoOn(s, TrainerRecLocks')) => pc'[s] # pc[s]]_vars

\* A writer has released the write lock of an id and is about to leave the
\* gate; its broadcast has woken two readers, and no writer of the id is
\* left.
C38_Witness ==
    \E w, r, t \in Sessions :
        /\ r # t
        /\ req[w].kind \in {"put", "del"} /\ pc[w] = "WU_gate"
        /\ ReaderWaiting(r) /\ pc[r] = "RL_woken" /\ req[r].id = req[w].id
        /\ ReaderWaiting(t) /\ pc[t] = "RL_woken" /\ req[t].id = req[w].id
        /\ RecLock(req[w].id) = NewRecordLock

\* This step puts the entry of id k into the table.
EntryCreated(k) == ~ TrainerRecLocks[k].present /\ TrainerRecLocks'[k].present

\* C39: the table holds one entry for an id from the first GetRecordLock
\* of the id on: an entry is never taken out again, an id without an
\* entry has no reader, writer or marker, and the session whose call
\* creates the entry finds it in the zero state, so that it acquires at
\* once and is the entry's only holder.
C39_OneEntryPerId ==
    [][\A k \in Ids :
          /\ TrainerRecLocks[k].present => TrainerRecLocks'[k].present
          /\ ~ TrainerRecLocks[k].present => ReadersOf(k) \cup WritersOf(k) = {}
          /\ EntryCreated(k) =>
                \E s \in Sessions :
                    /\ pc'[s] # pc[s] /\ req[s].id = k
                    /\ (HoldsRead(s) \/ HoldsWrite(s))'
                    /\ TrainerRecLocks'[k].NumReading + TrainerRecLocks'[k].NumWriting = 1
                    /\ TrainerRecLocks'[k].WrQueue = <<>>]_vars

\* Three sessions that asked for the entry of one id share it: two hold
\* its read lock and the third has its marker in its queue, while the
\* other id has no entry.
C39_Witness ==
    \E k \in Ids, w \in Sessions :
        /\ TrainerRecLocks[k].present
        /\ TrainerRecLocks[k].NumReading = 2
        /\ TrainerRecLocks[k].WrQueue = <<w>>
        /\ \A j \in Ids \ {k} : ~ TrainerRecLocks[j].present

\* The coordinator receives a send of handler c on client_done.
DoneReceived(c) == srv.handler[c] \in SenderStates /\ srv'.handler[c] # srv.handler[c]

\* C40: a handler sends on client_done once on every way of ending: after
\* the coordinator has received its send it is at no further send.
C40_OneDonePerSession ==
    [][\A c \in Sessions : DoneReceived(c) => srv'.handler[c] \notin SenderStates]_vars
====
